---------------------------- MODULE Spec2Model ----------------------------
(***************************************************************************)
(* Model of the natural-language query resolution engine of iot_llm:      *)
(*   - src/src/claude_query_interface.py  (EnhancedQueryInterface)        *)
(*   - src/src/llm_providers.py           (LLMProviderManager)            *)
(*   - src/src/knowledge_system.py        (QueryKnowledgeSystem)          *)
(*   - src/db/oracle/oracle_query_interface.py (OracleQueryInterface)     *)
(*   - src/db/oracle/oracle_domain_mapping.py  (OracleDomainMapper)       *)
(*                                                                         *)
(* Texts (queries, SQL) are TLA+ strings; Python's str operations and the *)
(* regular expressions of the source are computed on them character by    *)
(* character.  A Python value that may be None is the string NONE.        *)
(***************************************************************************)
EXTENDS Integers, Sequences, FiniteSets, TLC

VARIABLES
    query,             \* the text handed to the operation under way
    twin,              \* the same text with other user values in it
    now,               \* datetime.now() of the call, minutes since 0001-01-01 00:00
    pc,                \* which component the driver exercises
    out,               \* log of the last call: its inputs, what it returned or raised
    calls,             \* number of calls made so far (bounded)
    current_provider,  \* LLMProviderManager.current_provider
    providers,         \* LLMProviderManager.providers (the names registered)
    provider_order,    \* LLMProviderManager.provider_order
    query_history,     \* rows of the knowledge store's query_history table
    domain_vocabulary, \* rows of the knowledge store's domain_vocabulary table
    query_patterns,    \* rows of the knowledge store's query_patterns table
    next_id,           \* AUTOINCREMENT counters of the three tables
    schema_context     \* EnhancedQueryInterface._schema_context (NONE until built)

vars == <<query, twin, now, pc, out, calls, current_provider, providers, provider_order,
          query_history, domain_vocabulary, query_patterns, next_id, schema_context>>

requestVars == <<query, twin, now>>
managerVars == <<current_provider, providers, provider_order>>
knowledgeVars == <<query_history, domain_vocabulary, query_patterns, next_id>>

NONE == "<None>"

-----------------------------------------------------------------------------
(* Python str primitives *)

\* s[i] for a 1-based index; "" outside the text
CharAt(s, i) == IF i >= 1 /\ i <= Len(s) THEN SubSeq(s, i, i) ELSE ""

\* `sub in s` of Python: substring test
Contains(s, sub) ==
    \E i \in 1..(Len(s) - Len(sub) + 1) : SubSeq(s, i, i + Len(sub) - 1) = sub

\* any(word in s for word in words)
ContainsAny(s, words) == \E w \in words : Contains(s, w)

\* s.startswith(prefix)
StartsWith(s, prefix) ==
    Len(prefix) <= Len(s) /\ SubSeq(s, 1, Len(prefix)) = prefix

UpperLetters == "ABCDEFGHIJKLMNOPQRSTUVWXYZ"
LowerLetters == "abcdefghijklmnopqrstuvwxyz"
Digits == "0123456789"

\* position of the one-character text c in alphabet, 0 when absent
IndexIn(alphabet, c) ==
    IF \E i \in 1..Len(alphabet) : SubSeq(alphabet, i, i) = c
    THEN CHOOSE i \in 1..Len(alphabet) : SubSeq(alphabet, i, i) = c
    ELSE 0

\* the characters of an alphabet
CharsOf(alphabet) == {SubSeq(alphabet, i, i) : i \in 1..Len(alphabet)}
UpperSet == CharsOf(UpperLetters)
LowerSet == CharsOf(LowerLetters)
DigitSet == CharsOf(Digits)
WordCharSet == UpperSet \cup LowerSet \cup DigitSet \cup {"_"}

IsDigit(c) == c \in DigitSet
IsSpace(c) == c = " "
\* \w of the re module: letters, digits, underscore
IsWordChar(c) == c \in WordCharSet
IsAlpha(c) == c \in UpperSet \/ c \in LowerSet

\* the lower-case and upper-case letter of each letter
LowerOf == [c \in UpperSet |-> SubSeq(LowerLetters, IndexIn(UpperLetters, c),
                                      IndexIn(UpperLetters, c))]
UpperOf == [c \in LowerSet |-> SubSeq(UpperLetters, IndexIn(LowerLetters, c),
                                      IndexIn(LowerLetters, c))]
LowerChar(c) == IF c \in UpperSet THEN LowerOf[c] ELSE c
UpperChar(c) == IF c \in LowerSet THEN UpperOf[c] ELSE c

RECURSIVE Lower(_)
\* s.lower(), character by character (the text is halved to keep the
\* evaluation shallow)
Lower(s) ==
    IF Len(s) <= 1 THEN LowerChar(s)
    ELSE Lower(SubSeq(s, 1, Len(s) \div 2)) \o Lower(SubSeq(s, (Len(s) \div 2) + 1, Len(s)))

RECURSIVE Upper(_)
\* s.upper()
Upper(s) ==
    IF Len(s) <= 1 THEN UpperChar(s)
    ELSE Upper(SubSeq(s, 1, Len(s) \div 2)) \o Upper(SubSeq(s, (Len(s) \div 2) + 1, Len(s)))

RECURSIVE LStrip(_)
LStrip(s) == IF s # "" /\ IsSpace(CharAt(s, 1)) THEN LStrip(Tail(s)) ELSE s
RECURSIVE RStrip(_)
RStrip(s) ==
    IF s # "" /\ IsSpace(CharAt(s, Len(s)))
    THEN RStrip(SubSeq(s, 1, Len(s) - 1)) ELSE s
\* s.strip()
Strip(s) == RStrip(LStrip(s))

RECURSIVE ParseInt(_)
\* int(s) for a text of decimal digits
ParseInt(s) ==
    IF s = "" THEN 0
    ELSE 10 * ParseInt(SubSeq(s, 1, Len(s) - 1))
         + (IndexIn(Digits, CharAt(s, Len(s))) - 1)

-----------------------------------------------------------------------------
(* The regular expressions of the source.  A pattern is a sequence of atoms:
     <<"alt", S>>  one of the literal texts of S  (a literal is a one-element
                   S, an optional x? is {"x", ""})
     <<"ws1">> \s+     <<"ws0">> \s*     <<"b">> \b      <<"any">> .*
     <<"num">> the capturing group (\d+)
     <<"dec">> the capturing group (\d+(?:\.\d+)?)
     <<"ident">> the capturing group (\w+)
     <<"word3">> [a-zA-Z]{3,}
   Quantified atoms take the longest run, as the greedy quantifiers of re do
   (no pattern of the source needs a shorter run to match). *)

\* the characters of each class of the patterns
ClassChars ==
    [space |-> {" "}, digit |-> DigitSet, alpha |-> UpperSet \cup LowerSet,
     word |-> WordCharSet]

RECURSIVE SkipWhile(_, _, _)
\* first position >= i of s whose character is not of the class cls
SkipWhile(s, i, cls) ==
    IF CharAt(s, i) \in ClassChars[cls] THEN SkipWhile(s, i + 1, cls) ELSE i

\* end of (?:\.\d+)? at j, where the digits of \d+ end
FractionEnd(s, j) ==
    IF CharAt(s, j) = "." /\ IsDigit(CharAt(s, j + 1))
    THEN SkipWhile(s, j + 1, "digit") ELSE j

\* end of the longest \d+(?:\.\d+)? at i (i itself when there is no digit)
DecEnd(s, i) ==
    IF IsDigit(CharAt(s, i)) THEN FractionEnd(s, SkipWhile(s, i, "digit")) ELSE i

\* the atoms that take a run of characters: the class of the run, its least
\* length, whether the run is a capturing group
RunAtoms ==
    [ws1   |-> [cls |-> "space", least |-> 1, group |-> FALSE],
     ws0   |-> [cls |-> "space", least |-> 0, group |-> FALSE],
     num   |-> [cls |-> "digit", least |-> 1, group |-> TRUE],
     dec   |-> [cls |-> "digit", least |-> 1, group |-> TRUE],
     ident |-> [cls |-> "word",  least |-> 1, group |-> TRUE],
     word3 |-> [cls |-> "alpha", least |-> 3, group |-> FALSE]]

\* end of the longest run the atom kind takes at i
RunEnd(kind, s, i) ==
    IF kind = "dec" THEN DecEnd(s, i) ELSE SkipWhile(s, i, RunAtoms[kind].cls)

RECURSIVE MatchFrom(_, _, _, _, _)
\* the matches of atoms k.. of pat that follow the run i..j-1 taken by atom
\* k - 1, whose description is atom
AfterRun(pat, k, s, i, j, caps, atom) ==
    IF j - i < atom.least THEN {}
    ELSE MatchFrom(pat, k, s, j,
                   IF atom.group THEN Append(caps, SubSeq(s, i, j - 1)) ELSE caps)

\* the matches of atoms k.. of pat at position i of s: records of the position
\* after the match (e) and the captured groups (c)
MatchFrom(pat, k, s, i, caps) ==
    IF k > Len(pat) THEN {[e |-> i, c |-> caps]}
    ELSE CASE pat[k][1] = "alt" ->
             UNION { MatchFrom(pat, k + 1, s, i + Len(w), caps) :
                     w \in {x \in pat[k][2] : i + Len(x) - 1 <= Len(s)
                                              /\ SubSeq(s, i, i + Len(x) - 1) = x} }
        [] pat[k][1] = "b" ->
             IF IsWordChar(CharAt(s, i - 1)) # IsWordChar(CharAt(s, i))
             THEN MatchFrom(pat, k + 1, s, i, caps) ELSE {}
        [] pat[k][1] = "any" ->
             UNION { MatchFrom(pat, k + 1, s, j, caps) : j \in i..(Len(s) + 1) }
        [] OTHER ->
             AfterRun(pat, k + 1, s, i, RunEnd(pat[k][1], s, i), caps,
                      RunAtoms[pat[k][1]])

NoMatch == [found |-> FALSE, start |-> 0, e |-> 0, c |-> <<>>]

\* the match object of the longest of the matches ms at position start
MatchObject(start, ms) ==
    IF ms = {} THEN NoMatch
    ELSE [found |-> TRUE, start |-> start,
          e |-> (CHOOSE x \in ms : \A y \in ms : x.e >= y.e).e,
          c |-> (CHOOSE x \in ms : \A y \in ms : x.e >= y.e).c]

RECURSIVE FirstMatchIn(_, _, _, _)
\* the match of pat at the leftmost position of lo..hi that has one
FirstMatchIn(pat, s, lo, hi) ==
    IF lo > hi THEN NoMatch
    ELSE IF lo = hi THEN MatchObject(lo, MatchFrom(pat, 1, s, lo, <<>>))
    ELSE LET \* left if the lower half has a match, else that of the upper half
             First(left) ==
               IF left.found THEN left
               ELSE FirstMatchIn(pat, s, ((lo + hi) \div 2) + 1, hi)
         IN First(FirstMatchIn(pat, s, lo, (lo + hi) \div 2))

\* re.search(pat, s), looking from position from on: the leftmost match
SearchFrom(pat, s, from) == FirstMatchIn(pat, s, from, Len(s) + 1)

\* re.search(pat, s)
Search(pat, s) == SearchFrom(pat, s, 1)

RECURSIVE SubFrom(_, _, _, _)
\* s from position from on with every match of pat cut out; the matches are
\* those of re on low, the lower-cased s, scanned left to right
SubFrom(pat, s, low, from) ==
    LET Cut(m) == IF ~m.found \/ m.e = m.start THEN SubSeq(s, from, Len(s))
                  ELSE SubSeq(s, from, m.start - 1) \o SubFrom(pat, s, low, m.e)
    IN Cut(SearchFrom(pat, low, from))

\* re.sub(pat, '', s, flags=re.IGNORECASE)
ReSubEmpty(pat, s) == SubFrom(pat, s, Lower(s), 1)

Lit(w) == <<"alt", {w}>>
Opt(w) == <<"alt", {w, ""}>>
Alt(S) == <<"alt", S>>
WS1 == <<"ws1">>
WS0 == <<"ws0">>
B == <<"b">>
NUM == <<"num">>
DEC == <<"dec">>
ANY == <<"any">>

RECURSIVE FindAll(_, _, _)
\* re.findall / re.finditer: the matches of pat in s from position from on,
\* left to right, none overlapping
FindAll(pat, s, from) ==
    LET Rest(m) == IF ~m.found \/ m.e = m.start THEN <<>>
                   ELSE <<m>> \o FindAll(pat, s, m.e)
    IN Rest(SearchFrom(pat, s, from))

-----------------------------------------------------------------------------
(* LLMProviderManager (src/src/llm_providers.py) *)

ProviderNames == {"claude", "openai"}

\* a provider's generate_sql raises
RAISE == "<raise>"

\* longest fallback_order the configuration is drawn from
MaxOrderLen == 2
\* calls made in one behaviour
MaxCalls == 3

RECURSIVE SeqsUpTo(_, _)
\* the sequences over S of length at most n
SeqsUpTo(S, n) ==
    IF n = 0 THEN {<<>>}
    ELSE LET shorter == SeqsUpTo(S, n - 1) IN
         shorter \cup {Append(q, x) : q \in shorter, x \in S}

\* the configurations of 'fallback_order': every order of some or all of the
\* provider names, none listed twice (the default is <<"claude", "openai">>)
FallbackOrders ==
    {q \in SeqsUpTo(ProviderNames, MaxOrderLen) :
        \A i, j \in 1..Len(q) : q[i] = q[j] => i = j}

RECURSIVE FirstRegistered(_, _, _)
\* _initialize_providers: the first name of the order that is registered
FirstRegistered(order, k, regs) ==
    IF k > Len(order) THEN NONE
    ELSE IF order[k] \in regs THEN order[k]
    ELSE FirstRegistered(order, k + 1, regs)

\* _initialize_providers: a provider is registered iff it is available
\* (has an API key and a client); current_provider is the first registered
\* name of fallback_order
InitializeProviders(available, order) ==
    /\ providers = available
    /\ provider_order = order
    /\ current_provider = FirstRegistered(order, 1, available)

RECURSIVE TryFallbackProviders(_, _, _, _, _, _)
\* the loop "for provider_name in self.provider_order" of generate_sql;
\* reply[p] is what provider p does when invoked: RAISE or the text it returns
TryFallbackProviders(order, k, regs, cur, reply, invoked) ==
    IF k > Len(order)
    THEN [raised |-> TRUE, sql |-> NONE, provider |-> NONE,
          current |-> cur, invoked |-> invoked]
    ELSE LET name == order[k] IN
         IF name \in regs /\ name # cur
         THEN IF reply[name] # RAISE
              THEN [raised |-> FALSE, sql |-> reply[name], provider |-> name,
                    current |-> name, invoked |-> Append(invoked, name)]
              ELSE TryFallbackProviders(order, k + 1, regs, cur, reply,
                                        Append(invoked, name))
         ELSE TryFallbackProviders(order, k + 1, regs, cur, reply, invoked)

\* mutant of GenerateSqlRun: a fallback provider's success does not become the
\* current provider ("self.current_provider = provider_name" left out)
GenerateSqlRun_NoUpdate(cur, regs, order, reply) ==
    LET r == IF cur # NONE /\ cur \in regs
             THEN IF reply[cur] # RAISE
                  THEN [raised |-> FALSE, sql |-> reply[cur], provider |-> cur,
                        current |-> cur, invoked |-> <<cur>>]
                  ELSE TryFallbackProviders(order, 1, regs, cur, reply, <<cur>>)
             ELSE TryFallbackProviders(order, 1, regs, cur, reply, <<>>)
    IN [r EXCEPT !.current = cur]

\* LLMProviderManager.generate_sql: what it returns or that it raised, the
\* current_provider it leaves, and the providers it invoked, in order
GenerateSqlRun(cur, regs, order, reply) ==
    IF cur # NONE /\ cur \in regs
    THEN IF reply[cur] # RAISE
         THEN [raised |-> FALSE, sql |-> reply[cur], provider |-> cur,
               current |-> cur, invoked |-> <<cur>>]
         ELSE TryFallbackProviders(order, 1, regs, cur, reply, <<cur>>)
    ELSE TryFallbackProviders(order, 1, regs, cur, reply, <<>>)

\* mutant of SwitchProviderRun: the name is not looked up in the registered
\* providers
SwitchProviderRun_Unregistered(cur, regs, name, healthy) ==
    IF healthy THEN [ok |-> TRUE, current |-> name]
    ELSE [ok |-> FALSE, current |-> cur]

\* LLMProviderManager.switch_provider: the value returned and the
\* current_provider left
SwitchProviderRun(cur, regs, name, healthy) ==
    IF name \in regs
    THEN IF healthy THEN [ok |-> TRUE, current |-> name]
         ELSE [ok |-> FALSE, current |-> cur]
    ELSE [ok |-> FALSE, current |-> cur]

-----------------------------------------------------------------------------
(* QueryKnowledgeSystem (src/src/knowledge_system.py) *)

RECURSIVE CollapseSpaces(_)
\* re.sub(r'\s+', ' ', s): every run of whitespace becomes one space
CollapseSpaces(s) ==
    LET spaces == {i \in 1..Len(s) : IsSpace(CharAt(s, i))} IN
    IF spaces = {} THEN s
    ELSE LET i == CHOOSE x \in spaces : \A y \in spaces : x <= y
             j == SkipWhile(s, i, "space")
         IN SubSeq(s, 1, i - 1) \o " " \o CollapseSpaces(SubSeq(s, j, Len(s)))

\* _hash_query: the MD5 digest of the normalized query.  The digest is
\* modelled by the text it is computed from (MD5 taken as collision-free).
HashQuery(q) == "md5:" \o CollapseSpaces(Strip(Lower(q)))

\* provider_info is None
NoProviderInfo == [provider |-> NONE, model |-> NONE, confidence |-> NONE]

\* the rows of tbl with the (query_hash, generated_sql) of row: the rows the
\* UNIQUE(query_hash, generated_sql) constraint makes INSERT OR REPLACE delete
Conflicting(tbl, hash, sql) ==
    {r \in tbl : r.query_hash = hash /\ r.generated_sql = sql}

\* mutant of UpsertHistory: a plain INSERT, the conflicting row is kept
UpsertHistory_NoReplace(tbl, id, a) ==
    tbl \cup {[id |-> id,
               natural_query |-> a.natural_query,
               generated_sql |-> a.generated_sql,
               execution_success |-> a.execution_success,
               execution_time_ms |-> a.execution_time_ms,
               result_count |-> a.result_count,
               provider_used |-> a.provider_info.provider,
               model_used |-> a.provider_info.model,
               confidence_score |-> IF a.provider_info.provider # NONE
                                       /\ a.provider_info.confidence # NONE
                                    THEN a.provider_info.confidence ELSE "0.5",
               error_message |-> a.error_message,
               query_hash |-> HashQuery(a.natural_query)]}

\* the INSERT OR REPLACE INTO query_history of record_query
UpsertHistory(tbl, id, a) ==
    LET hash == HashQuery(a.natural_query)
        row  == [id |-> id,
                 natural_query |-> a.natural_query,
                 generated_sql |-> a.generated_sql,
                 execution_success |-> a.execution_success,
                 execution_time_ms |-> a.execution_time_ms,
                 result_count |-> a.result_count,
                 provider_used |-> a.provider_info.provider,
                 model_used |-> a.provider_info.model,
                 confidence_score |-> IF a.provider_info.provider # NONE
                                         /\ a.provider_info.confidence # NONE
                                      THEN a.provider_info.confidence ELSE "0.5",
                 error_message |-> a.error_message,
                 query_hash |-> hash]
    IN (tbl \ Conflicting(tbl, hash, a.generated_sql)) \cup {row}

\* the texts of s that the matches ms cover
MatchTexts(s, ms) == [k \in 1..Len(ms) |-> SubSeq(s, ms[k].start, ms[k].e - 1)]

\* the terms _learn_vocabulary skips
LearnSkipWords == {"show", "get", "find", "list", "what", "which", "where"}

\* re.findall(r'\b[a-zA-Z]{3,}\b', natural_query.lower())
WordsOf(nl) == MatchTexts(Lower(nl), FindAll(<<B, <<"word3">>, B>>, Lower(nl), 1))

\* the alternative of f|j that re takes: the one that matches further left,
\* f when both match at one position
Earlier(f, j) == IF f.found /\ (~j.found \/ f.start <= j.start) THEN f ELSE j

RECURSIVE TableRefs(_, _, _)
\* re.findall(r'\bFROM\s+(\w+)|JOIN\s+(\w+)', sql, re.IGNORECASE): the table
\* names after FROM and JOIN, in text order (low is sql lower-cased)
TableRefs(sql, low, from) ==
    LET Names(m) ==
          IF ~m.found THEN <<>>
          ELSE <<SubSeq(sql, m.e - Len(m.c[1]), m.e - 1)>> \o TableRefs(sql, low, m.e)
    IN Names(Earlier(SearchFrom(<<B, Lit("from"), WS1, <<"ident">>>>, low, from),
                     SearchFrom(<<Lit("join"), WS1, <<"ident">>>>, low, from)))

RECURSIVE MatchingChars(_, _)
\* difflib.SequenceMatcher(None, a, b): the number of characters in its
\* matching blocks: the longest common block (the earliest in a, then in b,
\* among the longest ones), then the same to its left and to its right
MatchingChars(a, b) ==
    LET blocks == {blk \in (1..Len(a)) \X (1..Len(b)) \X (1..Len(a)) :
                     /\ blk[1] + blk[3] - 1 <= Len(a)
                     /\ blk[2] + blk[3] - 1 <= Len(b)
                     /\ SubSeq(a, blk[1], blk[1] + blk[3] - 1)
                          = SubSeq(b, blk[2], blk[2] + blk[3] - 1)}
    IN IF blocks = {} THEN 0
       ELSE LET best == CHOOSE x \in blocks : \A y \in blocks :
                           \/ x[3] > y[3]
                           \/ x[3] = y[3] /\ x[1] < y[1]
                           \/ x[3] = y[3] /\ x[1] = y[1] /\ x[2] <= y[2]
                i == best[1]  j == best[2]  k == best[3]
            IN k + MatchingChars(SubSeq(a, 1, i - 1), SubSeq(b, 1, j - 1))
                 + MatchingChars(SubSeq(a, i + k, Len(a)), SubSeq(b, j + k, Len(b)))

\* _similarity_score(term, table) > 0.7, the ratio being 2*M/T
SimilarEnough(term, table) ==
    LET a == Lower(term)  b == Lower(table)  total == Len(a) + Len(b) IN
    IF total = 0 THEN TRUE
    ELSE 20 * MatchingChars(a, b) > 7 * total

\* mutant of UpdateVocabulary: the confidence is capped at 1.0
UpdateVocabulary_Capped(kb, term, table) ==
    LET old == {r \in kb.vocabulary : r.term = term}
        row == [id |-> kb.next_id.vocabulary, term |-> term, sql_mapping |-> table,
                usage_count |-> IF old = {} THEN 1
                                ELSE (CHOOSE r \in old : TRUE).usage_count + 1,
                confidence |-> IF old = {} THEN 6
                               ELSE IF (CHOOSE r \in old : TRUE).confidence >= 10
                               THEN 10
                               ELSE (CHOOSE r \in old : TRUE).confidence + 1]
    IN [kb EXCEPT !.vocabulary = (kb.vocabulary \ old) \cup {row},
                  !.next_id.vocabulary = @ + 1]

\* _update_vocabulary: INSERT OR REPLACE on the UNIQUE term; usage_count and
\* confidence (in tenths) continue those of the row replaced
UpdateVocabulary(kb, term, table) ==
    LET old == {r \in kb.vocabulary : r.term = term}
        row == [id |-> kb.next_id.vocabulary, term |-> term, sql_mapping |-> table,
                usage_count |-> IF old = {} THEN 1
                                ELSE (CHOOSE r \in old : TRUE).usage_count + 1,
                confidence |-> IF old = {} THEN 6
                               ELSE (CHOOSE r \in old : TRUE).confidence + 1]
    IN [kb EXCEPT !.vocabulary = (kb.vocabulary \ old) \cup {row},
                  !.next_id.vocabulary = @ + 1]

RECURSIVE LearnVocabularyFrom(_, _, _, _)
\* the loops of _learn_vocabulary: pairs (term, table) in the order term k,
\* then table t
LearnVocabularyFrom(kb, terms, tables, n) ==
    IF n >= Len(terms) * Len(tables) THEN kb
    ELSE LET term  == terms[(n \div Len(tables)) + 1]
             table == tables[(n % Len(tables)) + 1]
             kb2   == IF term \notin LearnSkipWords /\ table # ""
                         /\ SimilarEnough(term, table)
                      THEN UpdateVocabulary(kb, term, table) ELSE kb
         IN LearnVocabularyFrom(kb2, terms, tables, n + 1)

\* _learn_vocabulary
LearnVocabulary(kb, nl, sql) ==
    LearnVocabularyFrom(kb, WordsOf(nl), TableRefs(sql, Lower(sql), 1), 0)

\* _update_query_pattern: the table has no UNIQUE constraint besides its id, so
\* INSERT OR REPLACE adds a row; its usage_count is one more than that of the
\* first row (lowest rowid) of the same pattern_type and example_nl
UpdateQueryPattern(kb, type, nl, sql) ==
    LET same == {r \in kb.patterns : r.pattern_type = type /\ r.example_nl = nl}
        row  == [id |-> kb.next_id.patterns, pattern_type |-> type,
                 example_nl |-> nl, example_sql |-> sql,
                 usage_count |-> IF same = {} THEN 1
                                 ELSE (CHOOSE r \in same :
                                         \A o \in same : r.id <= o.id).usage_count + 1]
    IN [kb EXCEPT !.patterns = kb.patterns \cup {row},
                  !.next_id.patterns = @ + 1]

\* re.search(r'\b(a|b|...)\b', s, re.IGNORECASE) for alternatives given as patterns
SearchAnyWord(alts, s) ==
    \E a \in alts : Search(<<B>> \o a \o <<B>>, Lower(s)).found

\* _learn_query_patterns, the time-based pattern
LearnTimePattern(kb, nl, sql) ==
    IF /\ SearchAnyWord({<<Lit("today")>>, <<Lit("yesterday")>>,
                         <<Lit("last"), WS1, Lit("week")>>,
                         <<Lit("this"), WS1, Lit("month")>>}, nl)
       /\ Search(<<Lit("where"), ANY, Lit("timestamp"), ANY, Lit(">="),
                   ANY, Lit("date")>>, Lower(sql)).found
    THEN UpdateQueryPattern(kb, "time_filter", nl, sql) ELSE kb

\* _learn_query_patterns, the aggregation pattern
LearnAggregationPattern(kb, nl, sql) ==
    IF /\ SearchAnyWord({<<Lit("count")>>, <<Lit("sum")>>, <<Lit("average")>>,
                         <<Lit("max")>>, <<Lit("min")>>,
                         <<Lit("how"), WS1, Lit("many")>>}, nl)
       /\ SearchAnyWord({<<Lit("count")>>, <<Lit("sum")>>, <<Lit("avg")>>,
                         <<Lit("max")>>, <<Lit("min")>>}, sql)
    THEN UpdateQueryPattern(kb, "aggregation", nl, sql) ELSE kb

\* _learn_query_patterns
LearnQueryPatterns(kb, nl, sql) ==
    LearnAggregationPattern(LearnTimePattern(kb, nl, sql), nl, sql)

\* _learn_from_successful_query; an exception inside it is caught and logged
\* (fault "learn": the learning step fails before it changes a table)
LearnFromSuccessfulQuery(kb, nl, sql, fault) ==
    IF fault = "learn" THEN kb
    ELSE LearnQueryPatterns(LearnVocabulary(kb, nl, sql), nl, sql)

\* the faults of one knowledge-store call: none, the statement on
\* query_history fails, the learning step fails
KnowledgeFaults == {"none", "insert", "learn"}

\* mutant of RecordQueryRun: an exception of the learning step reaches the
\* handler of record_query, which returns -1 for a row it has committed
RecordQueryRun_LearnRaises(kb, a, fault) ==
    IF fault = "insert" \/ a.natural_query = NONE \/ a.generated_sql = NONE
    THEN [kb |-> kb, ret |-> -1]
    ELSE LET id  == kb.next_id.history
             kb1 == [kb EXCEPT !.history = UpsertHistory(kb.history, id, a),
                               !.next_id.history = id + 1]
         IN [kb  |-> IF a.execution_success
                     THEN LearnFromSuccessfulQuery(kb1, a.natural_query,
                                                   a.generated_sql, fault)
                     ELSE kb1,
             ret |-> IF a.execution_success /\ fault = "learn" THEN -1 ELSE id]

\* mutant of RecordQueryRun: the learning step runs for every recorded query,
\* successful or not
RecordQueryRun_AlwaysLearns(kb, a, fault) ==
    IF fault = "insert" \/ a.natural_query = NONE \/ a.generated_sql = NONE
    THEN [kb |-> kb, ret |-> -1]
    ELSE LET id  == kb.next_id.history
             kb1 == [kb EXCEPT !.history = UpsertHistory(kb.history, id, a),
                               !.next_id.history = id + 1]
         IN [kb  |-> LearnFromSuccessfulQuery(kb1, a.natural_query,
                                              a.generated_sql, fault),
             ret |-> id]

\* record_query: the tables it leaves (kb) and the value it returns (ret).
\* The INSERT fails on a fault and on a NULL natural_query or generated_sql
\* (_hash_query of None raises; generated_sql is NOT NULL).
RecordQueryRun(kb, a, fault) ==
    IF fault = "insert" \/ a.natural_query = NONE \/ a.generated_sql = NONE
    THEN [kb |-> kb, ret |-> -1]
    ELSE LET id  == kb.next_id.history
             kb1 == [kb EXCEPT !.history = UpsertHistory(kb.history, id, a),
                               !.next_id.history = id + 1]
         IN [kb  |-> IF a.execution_success
                     THEN LearnFromSuccessfulQuery(kb1, a.natural_query,
                                                   a.generated_sql, fault)
                     ELSE kb1,
             ret |-> id]

\* the knowledge tables as one record, and back
KnowledgeBase ==
    [history |-> query_history, vocabulary |-> domain_vocabulary,
     patterns |-> query_patterns, next_id |-> next_id]
SetKnowledge(kb) ==
    /\ query_history' = kb.history
    /\ domain_vocabulary' = kb.vocabulary
    /\ query_patterns' = kb.patterns
    /\ next_id' = kb.next_id

-----------------------------------------------------------------------------
(* Python values: datetimes, floats, and the bind parameters made of them.
   A datetime is the number of minutes since 0001-01-01 00:00 (datetime.min);
   no datetime is NoTime (Python's None). *)

NoTime == -1
MinutesPerDay == 1440

RECURSIVE StripLeadingZeros(_)
StripLeadingZeros(d) ==
    IF Len(d) > 1 /\ CharAt(d, 1) = "0" THEN StripLeadingZeros(Tail(d)) ELSE d
RECURSIVE StripTrailingZeros(_)
StripTrailingZeros(d) ==
    IF Len(d) > 1 /\ CharAt(d, Len(d)) = "0"
    THEN StripTrailingZeros(SubSeq(d, 1, Len(d) - 1)) ELSE d

\* repr(float(text)) for a text matched by \d+(?:\.\d+)? (below 1e16)
FloatRepr(text) ==
    LET dot == IF Contains(text, ".")
               THEN CHOOSE i \in 1..Len(text) : CharAt(text, i) = "."
               ELSE Len(text) + 1
        ip  == StripLeadingZeros(SubSeq(text, 1, dot - 1))
        fp  == IF dot > Len(text) THEN "0"
               ELSE StripTrailingZeros(SubSeq(text, dot + 1, Len(text)))
    IN ip \o "." \o fp

\* n written with at least w digits
Padded(n, w) ==
    LET s == ToString(n) IN
    IF Len(s) >= w THEN s ELSE SubSeq("0000", 1, w - Len(s)) \o s

\* the calendar date of day number z (0 is 0001-01-01), proleptic Gregorian
CivilDate(z) ==
    LET \* era: 400-year era, yoe: year of the era, doy: day of the year that
        \* starts on 1 March, mp: month of that year (0 is March)
        Civil(era, yoe, doy, mp) ==
            [year  |-> yoe + era * 400 + (IF mp >= 10 THEN 1 ELSE 0),
             month |-> IF mp < 10 THEN mp + 3 ELSE mp - 9,
             day   |-> doy - ((153 * mp + 2) \div 5) + 1]
        InYear(era, yoe, doy) == Civil(era, yoe, doy, (5 * doy + 2) \div 153)
        \* doe: day of the era
        InEra(era, doe, yoe) ==
            InYear(era, yoe, doe - (365 * yoe + (yoe \div 4) - (yoe \div 100)))
        OfEra(era, doe) ==
            InEra(era, doe,
                  (doe - (doe \div 1460) + (doe \div 36524) - (doe \div 146096))
                     \div 365)
    IN OfEra((z + 306) \div 146097, (z + 306) % 146097)

\* datetime.isoformat() of a datetime on a whole minute
IsoFormat(t) ==
    LET Text(c, r) ==
          Padded(c.year, 4) \o "-" \o Padded(c.month, 2) \o "-" \o Padded(c.day, 2)
          \o "T" \o Padded(r \div 60, 2) \o ":" \o Padded(r % 60, 2) \o ":00"
    IN Text(CivilDate(t \div MinutesPerDay), t % MinutesPerDay)

\* datetime.weekday(): Monday is 0 (0001-01-01 is a Monday)
Weekday(t) == (t \div MinutesPerDay) % 7

\* a bind parameter: the Python type of the value and its text
PyStr(text) == [type |-> "str", text |-> text]
PyFloat(text) == [type |-> "float", text |-> FloatRepr(text)]
PyInt(n) == [type |-> "int", text |-> ToString(n)]
PyDateTime(t) == [type |-> "datetime", text |-> IsoFormat(t)]

\* now - timedelta(days=int(digits)) or now - timedelta(hours=int(digits)):
\* OverflowError (raised) when the result is before datetime.min or the
\* timedelta is out of range
TimeBefore(t, digits, minutesPerUnit) ==
    LET d == StripLeadingZeros(digits) IN
    IF Len(d) > 9 \/ ParseInt(d) > t \div minutesPerUnit
    THEN [raised |-> TRUE, t |-> NoTime]
    ELSE [raised |-> FALSE, t |-> t - ParseInt(d) * minutesPerUnit]

-----------------------------------------------------------------------------
(* EnhancedQueryInterface, rule-based synthesis
   (src/src/claude_query_interface.py, src/src/domain_mapping.py) *)

\* a loop that takes the pattern whose match stands leftmost in the text
\* (the earliest in the table among those that start at one position)
FirstMatching_Leftmost(pats, k, low) ==
    LET found == {j \in k..Len(pats) : Search(pats[j].pat, low).found}
        Before(i, j) == \/ Search(pats[i].pat, low).start < Search(pats[j].pat, low).start
                        \/ /\ Search(pats[i].pat, low).start = Search(pats[j].pat, low).start
                           /\ i <= j
    IN IF found = {} THEN 0
       ELSE CHOOSE i \in found : \A j \in found : Before(i, j)

RECURSIVE FirstMatching(_, _, _)
\* the loop "for pattern, ... in patterns: match = re.search(pattern, low);
\* if match: ... break": index of the first pattern found in low, 0 if none
FirstMatching(pats, k, low) ==
    IF k > Len(pats) THEN 0
    ELSE IF Search(pats[k].pat, low).found THEN k
    ELSE FirstMatching(pats, k + 1, low)

\* the window from b, a result of TimeBefore, to t
WindowSince(b, t) ==
    [raised |-> b.raised, start |-> b.t, end |-> IF b.raised THEN NoTime ELSE t]

\* the window of a time pattern at datetime t; m are the groups of its match
TimeWindow(kind, t, m) ==
    CASE kind = "week" -> [raised |-> FALSE, start |-> t - 7 * MinutesPerDay, end |-> t]
      [] kind = "month" -> [raised |-> FALSE, start |-> t - 30 * MinutesPerDay, end |-> t]
      [] kind = "hour" -> [raised |-> FALSE, start |-> t - 60, end |-> t]
      [] kind = "yesterday" ->
           [raised |-> FALSE, start |-> t - MinutesPerDay,
            end |-> t - MinutesPerDay + 23 * 60 + 59]
      [] kind = "today" ->
           [raised |-> FALSE, start |-> t - (t % MinutesPerDay), end |-> t]
      [] kind = "this_week" ->
           [raised |-> FALSE, start |-> t - Weekday(t) * MinutesPerDay, end |-> t]
      [] kind = "this_month" ->
           [raised |-> FALSE,
            start |-> t - (CivilDate(t \div MinutesPerDay).day - 1) * MinutesPerDay,
            end |-> t]
      [] kind = "days" -> WindowSince(TimeBefore(t, m[1], MinutesPerDay), t)
      [] kind = "hours" -> WindowSince(TimeBefore(t, m[1], 60), t)

\* time_patterns of EnhancedQueryInterface.parse_time_expressions, in dict order
FallbackTimePatterns ==
    << [pat |-> <<B, Lit("last"), WS1, Lit("week"), B>>, kind |-> "week"],
       [pat |-> <<B, Lit("past"), WS1, Lit("week"), B>>, kind |-> "week"],
       [pat |-> <<B, Lit("previous"), WS1, Lit("week"), B>>, kind |-> "week"],
       [pat |-> <<B, Lit("yesterday"), B>>, kind |-> "yesterday"],
       [pat |-> <<B, Lit("today"), B>>, kind |-> "today"],
       [pat |-> <<B, Lit("last"), WS1, NUM, WS1, Lit("day"), Opt("s"), B>>,
        kind |-> "days"],
       [pat |-> <<B, Lit("last"), WS1, NUM, WS1, Lit("hour"), Opt("s"), B>>,
        kind |-> "hours"],
       [pat |-> <<B, Lit("last"), WS1, Lit("month"), B>>, kind |-> "month"],
       [pat |-> <<B, Lit("this"), WS1, Lit("week"), B>>, kind |-> "this_week"] >>

\* parse_time_expressions of either interface over its pattern table: the
\* cleaned query and the window, or raised when the window cannot be computed
ParseTimeWith(pats, q, t) ==
    LET \* pattern k matched and gave the window w
        Parsed(k, w) ==
          IF w.raised
          THEN [raised |-> TRUE, query |-> q, start |-> NoTime, end |-> NoTime,
                pattern |-> k]
          ELSE [raised |-> FALSE, query |-> Strip(ReSubEmpty(pats[k].pat, q)),
                start |-> w.start, end |-> w.end, pattern |-> k]
        \* pattern k is the first one found in low (0: none is)
        Found(low, k) ==
          IF k = 0
          THEN [raised |-> FALSE, query |-> q, start |-> NoTime, end |-> NoTime,
                pattern |-> 0]
          ELSE Parsed(k, TimeWindow(pats[k].kind, t, Search(pats[k].pat, low).c))
    IN Found(Lower(q), FirstMatching(pats, 1, Lower(q)))

\* EnhancedQueryInterface.parse_time_expressions
ParseTimeExpressions(q, t) == ParseTimeWith(FallbackTimePatterns, q, t)

\* DomainMapper.table_mappings, in dict order
TableMappings ==
    << <<"signal", "RepData">>, <<"signals", "RepData">>,
       <<"signal_data", "RepData">>, <<"sensor_data", "RepData">>,
       <<"sensor_readings", "RepData">>, <<"measurements", "RepData">>,
       <<"readings", "RepData">>, <<"data_points", "RepData">>,
       <<"log", "RepItem">>, <<"logs", "RepItem">>,
       <<"calculated_data", "RepItem">>, <<"aggregated_data", "RepItem">>,
       <<"computed_values", "RepItem">>, <<"analytics", "RepItem">>,
       <<"calculations", "RepItem">>, <<"aggregations", "RepItem">>,
       <<"device", "DevMap">>, <<"devices", "DevMap">>,
       <<"device_config", "DevMap">>, <<"device_configuration", "DevMap">>,
       <<"equipment", "DevMap">>, <<"sensors", "DevMap">>, <<"hardware", "DevMap">>,
       <<"threshold", "ThreshSet">>, <<"thresholds", "ThreshSet">>,
       <<"limits", "ThreshSet">>, <<"boundaries", "ThreshSet">>,
       <<"constraints", "ThreshSet">>, <<"ranges", "ThreshSet">>,
       <<"setpoints", "ThreshSet">>,
       <<"alert", "AlertLog">>, <<"alerts", "AlertLog">>, <<"alarm", "AlertLog">>,
       <<"alarms", "AlertLog">>, <<"notifications", "AlertLog">>,
       <<"incidents", "AlertLog">>, <<"warnings", "AlertLog">>,
       <<"violations", "AlertLog">>,
       <<"location", "LocRef">>, <<"locations", "LocRef">>, <<"site", "LocRef">>,
       <<"sites", "LocRef">>, <<"facility", "LocRef">>, <<"facilities", "LocRef">>,
       <<"area", "LocRef">>, <<"areas", "LocRef">>, <<"zone", "LocRef">>,
       <<"zones", "LocRef">> >>

RECURSIVE FirstTermIn(_, _, _)
\* "for domain_term, table in table_mappings.items(): if domain_term in
\* query_lower: ... break": the table of the first term contained, or NONE
FirstTermIn(mappings, k, low) ==
    IF k > Len(mappings) THEN NONE
    ELSE IF Contains(low, mappings[k][1]) THEN mappings[k][2]
    ELSE FirstTermIn(mappings, k + 1, low)

\* comparison_patterns of extract_query_intent, in list order
ComparisonPatterns ==
    << [pat |-> <<Lit(">"), WS0, DEC>>, op |-> "GT"],
       [pat |-> <<Lit("<"), WS0, DEC>>, op |-> "LT"],
       [pat |-> <<Lit("="), WS0, DEC>>, op |-> "EQ"],
       [pat |-> <<Lit("above"), WS1, DEC>>, op |-> "GT"],
       [pat |-> <<Lit("below"), WS1, DEC>>, op |-> "LT"],
       [pat |-> <<Lit("over"), WS1, DEC>>, op |-> "GT"],
       [pat |-> <<Lit("under"), WS1, DEC>>, op |-> "LT"] >>

\* EnhancedQueryInterface.extract_query_intent
ExtractQueryIntent(q) ==
    LET \* low: query.lower(); k: the first comparison pattern found (0: none)
        Intent(low, k) ==
       [action |->
          IF ContainsAny(low, {"which", "what", "show", "find", "get", "list"})
          THEN "SELECT"
          ELSE IF ContainsAny(low, {"count", "how many"}) THEN "COUNT"
          ELSE IF ContainsAny(low, {"average", "avg", "mean"}) THEN "AVG"
          ELSE IF ContainsAny(low, {"maximum", "max", "highest"}) THEN "MAX"
          ELSE IF ContainsAny(low, {"minimum", "min", "lowest"}) THEN "MIN"
          ELSE NONE,
        entity |-> FirstTermIn(TableMappings, 1, low),
        condition |->
          IF ContainsAny(low, {"crossed", "exceeded", "violated", "breached"})
          THEN "threshold_exceeded"
          ELSE IF ContainsAny(low, {"offline", "disconnected", "down"})
          THEN "status_offline"
          ELSE IF ContainsAny(low, {"online", "connected", "active"})
          THEN "status_online"
          ELSE NONE,
        comparison |-> IF k = 0 THEN NONE ELSE ComparisonPatterns[k].op,
        value |-> IF k = 0 THEN NONE
                  ELSE Search(ComparisonPatterns[k].pat, low).c[1]]
    IN Intent(Lower(q), FirstMatching(ComparisonPatterns, 1, Lower(q)))

RECURSIVE JoinWith(_, _)
\* sep.join(parts)
JoinWith(sep, parts) ==
    IF parts = <<>> THEN ""
    ELSE IF Len(parts) = 1 THEN parts[1]
    ELSE parts[1] \o sep \o JoinWith(sep, Tail(parts))

\* build_sql_query_fallback for the intent extracted from the query
FallbackSqlOf(intent, start_date, end_date) ==
    LET entity == IF intent.entity = NONE THEN "RepData" ELSE intent.entity
        timed  == start_date # NoTime /\ end_date # NoTime
        joined == intent.condition = "threshold_exceeded" /\ entity = "RepData"
        select_clause ==
            IF joined
            THEN "SELECT r.device_id, r.sensor_type, r.value, r.unit, r.timestamp"
            ELSE IF intent.action = "COUNT" THEN "SELECT COUNT(*)"
            ELSE IF intent.action \in {"AVG", "MAX", "MIN"}
            THEN "SELECT " \o intent.action \o "(value)"
            ELSE IF entity = "RepData"
            THEN "SELECT device_id, sensor_type, value, unit, timestamp"
            ELSE IF entity = "AlertLog"
            THEN "SELECT device_id, sensor_type, alert_type, actual_value, threshold_value, timestamp"
            ELSE IF entity = "DevMap"
            THEN "SELECT device_id, device_name, status, location"
            ELSE "SELECT *"
        from_clause ==
            IF joined
            THEN "FROM " \o entity \o " r JOIN ThreshSet t ON r.sensor_type = t.sensor_type"
            ELSE "FROM " \o entity
        time_conditions ==
            IF timed
            THEN IF joined THEN <<"r.timestamp BETWEEN ? AND ?">>
                 ELSE <<"timestamp BETWEEN ? AND ?">>
            ELSE <<>>
        intent_conditions ==
            IF intent.condition = "threshold_exceeded"
            THEN IF entity = "RepData"
                 THEN <<"(r.value > t.max_value OR r.value < t.min_value)">>
                 ELSE IF entity = "AlertLog"
                 THEN <<"alert_type = 'threshold_exceeded'">>
                 ELSE <<>>
            ELSE IF intent.condition = "status_offline" THEN <<"status = 'offline'">>
            ELSE IF intent.condition = "status_online" THEN <<"status = 'online'">>
            ELSE <<>>
        value_conditions ==
            IF intent.comparison = NONE THEN <<>>
            ELSE IF intent.comparison = "GT" THEN <<"value > ?">>
            ELSE IF intent.comparison = "LT" THEN <<"value < ?">>
            ELSE <<"value = ?">>
        where_conditions == time_conditions \o intent_conditions \o value_conditions
    IN [sql |-> select_clause \o " " \o from_clause
                \o (IF where_conditions # <<>>
                    THEN " WHERE " \o JoinWith(" AND ", where_conditions) ELSE "")
                \o (IF entity \in {"RepData", "AlertLog"}
                    THEN " ORDER BY timestamp DESC" ELSE "")
                \o (IF intent.action = "SELECT" THEN " LIMIT 100" ELSE ""),
        params |-> (IF timed THEN <<PyStr(IsoFormat(start_date)),
                                    PyStr(IsoFormat(end_date))>> ELSE <<>>)
                   \o (IF intent.comparison = NONE THEN <<>>
                       ELSE <<PyFloat(intent.value)>>),
        intent |-> intent]

\* EnhancedQueryInterface.build_sql_query_fallback
BuildSqlQueryFallback(q, start_date, end_date) ==
    FallbackSqlOf(ExtractQueryIntent(q), start_date, end_date)

-----------------------------------------------------------------------------
(* OracleDomainMapper (src/db/oracle/oracle_domain_mapping.py) *)

\* OracleDomainMapper.table_mappings, in dict order
OracleTableMappings ==
    << <<"signal", "SIGNALITEM">>, <<"signals", "SIGNALITEM">>,
       <<"sensor", "SIGNALITEM">>, <<"sensors", "SIGNALITEM">>,
       <<"signal_definitions", "SIGNALITEM">>,
       <<"sensor_definitions", "SIGNALITEM">>,
       <<"measurement_points", "SIGNALITEM">>, <<"data_points", "SIGNALITEM">>,
       <<"instruments", "SIGNALITEM">>, <<"current_values", "SIGNALVALUE">>,
       <<"live_data", "SIGNALVALUE">>, <<"real_time_data", "SIGNALVALUE">>,
       <<"current_readings", "SIGNALVALUE">>,
       <<"latest_values", "SIGNALVALUE">>, <<"signal_values", "SIGNALVALUE">>,
       <<"historical_data", "REPDATA">>, <<"history", "REPDATA">>,
       <<"historical_values", "REPDATA">>, <<"time_series", "REPDATA">>,
       <<"archived_data", "REPDATA">>, <<"process_data", "REPDATA">>,
       <<"measurements", "REPDATA">>, <<"readings", "REPDATA">>,
       <<"calculations", "REPITEM">>, <<"calculated_values", "REPITEM">>,
       <<"aggregations", "REPITEM">>, <<"aggregated_data", "REPITEM">>,
       <<"computed_data", "REPITEM">>, <<"analytics", "REPITEM">>,
       <<"reports", "REPITEM">>, <<"report_items", "REPITEM">>,
       <<"kpi", "REPITEM">>, <<"metrics", "REPITEM">>,
       <<"channels", "SIGNALCHANNEL">>, <<"signal_channels", "SIGNALCHANNEL">>,
       <<"communication_channels", "SIGNALCHANNEL">>,
       <<"data_sources", "SIGNALCHANNEL">>, <<"connections", "SIGNALCHANNEL">>,
       <<"interfaces", "SIGNALCHANNEL">>, <<"protocols", "SIGNALCHANNEL">>,
       <<"groups", "CHANNELGROUP">>, <<"channel_groups", "CHANNELGROUP">>,
       <<"signal_groups", "CHANNELGROUP">>,
       <<"equipment_groups", "CHANNELGROUP">>, <<"areas", "CHANNELGROUP">>,
       <<"zones", "CHANNELGROUP">>, <<"time_periods", "PROCINSTANCE">>,
       <<"process_instances", "PROCINSTANCE">>, <<"periods", "PROCINSTANCE">>,
       <<"intervals", "PROCINSTANCE">>, <<"batches", "PROCINSTANCE">>,
       <<"runs", "PROCINSTANCE">>, <<"sessions", "PROCINSTANCE">>,
       <<"addresses", "ADDRESS">>, <<"external_systems", "ADDRESS">>,
       <<"remote_systems", "ADDRESS">>, <<"customers", "ADDRESS">>,
       <<"endpoints", "ADDRESS">>, <<"destinations", "ADDRESS">> >>

\* a word with an optional plural s, between word boundaries: \bwords?\b
Word(w) == <<B, Lit(w), B>>
Plural(w) == <<B, Lit(w), Opt("s"), B>>
\* \bfirst\s+seconds?\b
TwoWords(first, second) == <<B, Lit(first), WS1, Lit(second), Opt("s"), B>>

\* patterns of suggest_tables, in dict order, each table with its pattern list
SuggestPatterns ==
    << [table |-> "SIGNALVALUE",
        pats |-> << TwoWords("current", "value"),
                    <<B, Lit("live"), WS1, Lit("data"), B>>,
                    TwoWords("latest", "value"),
                    <<B, Lit("real"), WS0, Lit("time"), B>>,
                    TwoWords("signal", "value"),
                    <<B, Lit("current"), WS1, Lit("signal"), B>> >>],
       [table |-> "REPDATA",
        pats |-> << <<B, Lit("historical"), WS1, Lit("data"), B>>,
                    Word("history"),
                    <<B, Lit("past"), WS1, Lit("data"), B>>,
                    Word("archived") >>],
       [table |-> "SIGNALCHANNEL",
        pats |-> << Plural("channel"), Word("communication"),
                    Plural("protocol"), Plural("connection") >>],
       [table |-> "CHANNELGROUP",
        pats |-> << Plural("group"), Plural("area"), Plural("zone"),
                    TwoWords("equipment", "group") >>],
       [table |-> "REPITEM",
        pats |-> << Plural("calculation"), Plural("report"), Word("computed"),
                    <<B, Lit("aggregate"), Opt("d"), B>> >>],
       [table |-> "PROCINSTANCE",
        pats |-> << TwoWords("process", "instance"), Plural("period"),
                    <<B, Lit("batche"), Opt("s"), B>>,
                    TwoWords("time", "period") >>],
       [table |-> "SIGNALITEM",
        pats |-> << TwoWords("signal", "definition"),
                    TwoWords("sensor", "definition"),
                    <<B, Lit("signal"), WS1, Lit("config"), B>>,
                    TwoWords("all", "signal"), TwoWords("all", "sensor") >>] >>

\* the score suggest_tables gives a table: len(term) for every term of the
\* table contained in low, 10 for every pattern of the table found in low
TableScore(table, low) ==
    LET RECURSIVE SumLen(_, _)
        \* the lengths of the terms S of maps, added up
        SumLen(maps, S) ==
            IF S = {} THEN 0
            ELSE Len(maps[CHOOSE x \in S : TRUE][1])
                 + SumLen(maps, S \ {CHOOSE x \in S : TRUE})
        \* terms: the terms of the table contained in low; group: the pattern
        \* group of the table; hits: its patterns found in low
        Scored(maps, terms, group, hits) ==
            [score |-> SumLen(maps, terms) + 10 * Cardinality(hits),
             scored |-> terms # {} \/ hits # {},
             \* position at which the table enters the scores dict: its first
             \* term contained, else (after all terms) its pattern group
             rank |-> IF terms # {}
                      THEN CHOOSE k \in terms : \A o \in terms : k <= o
                      ELSE Len(maps) + (CHOOSE g \in group : TRUE)]
        Hits(maps, pats, terms, group) ==
            Scored(maps, terms, group,
                   {<<g, i>> \in group \X (1..6) :
                       i <= Len(pats[g].pats) /\ Search(pats[g].pats[i], low).found})
        Over(maps, pats) ==
            Hits(maps, pats,
                 {k \in 1..Len(maps) : maps[k][2] = table /\ Contains(low, maps[k][1])},
                 {g \in 1..Len(pats) : pats[g].table = table})
    IN Over(OracleTableMappings, SuggestPatterns)

OracleTables ==
    {"SIGNALITEM", "SIGNALVALUE", "REPDATA", "REPITEM", "SIGNALCHANNEL",
     "CHANNELGROUP", "PROCINSTANCE", "ADDRESS"}

RECURSIVE SortedByScore_EntryOrder(_, _)
\* the keys of the scores dict as they entered it, not sorted
SortedByScore_EntryOrder(S, sc) ==
    IF S = {} THEN <<>>
    ELSE LET first == CHOOSE x \in S : \A y \in S : sc[x].rank <= sc[y].rank
         IN <<first>> \o SortedByScore_EntryOrder(S \ {first}, sc)

RECURSIVE SortedByScore(_, _)
\* sorted(scores.keys(), key=score, reverse=True): descending score, tables of
\* equal score in the order they entered the dict
SortedByScore(S, sc) ==
    IF S = {} THEN <<>>
    ELSE LET best == CHOOSE x \in S : \A y \in S :
                        \/ sc[x].score > sc[y].score
                        \/ sc[x].score = sc[y].score /\ sc[x].rank <= sc[y].rank
         IN <<best>> \o SortedByScore(S \ {best}, sc)

\* dict.get(key, default) of a dict written as the sequence of its items
DictGet(items, key, default) ==
    IF \E k \in 1..Len(items) : items[k][1] = key
    THEN items[CHOOSE k \in 1..Len(items) : items[k][1] = key][2]
    ELSE default

\* DomainMapper.get_table_name
GetTableName(domain_term) == DictGet(TableMappings, Lower(domain_term), domain_term)

\* OracleDomainMapper.get_table_for_domain
GetTableForDomain(domain_term) ==
    DictGet(OracleTableMappings, Strip(Lower(domain_term)), NONE)

\* OracleDomainMapper.suggest_tables
SuggestTables(text) ==
    LET \* suggestions[:2]
        Top2(sorted) == SubSeq(sorted, 1, IF Len(sorted) < 2 THEN Len(sorted) ELSE 2)
        \* cand: the keys of the scores dict
        Ranked(low, cand) ==
            Top2(SortedByScore(cand, [tb \in cand |-> TableScore(tb, low)]))
        Suggest(low, maps, pats) ==
            Ranked(low,
                   {maps[k][2] : k \in {j \in 1..Len(maps) : Contains(low, maps[j][1])}}
                   \cup {pats[g].table :
                           g \in {h \in 1..Len(pats) :
                                    \E i \in 1..Len(pats[h].pats) :
                                       Search(pats[h].pats[i], low).found}})
    IN Suggest(Lower(text), OracleTableMappings, SuggestPatterns)

-----------------------------------------------------------------------------
(* OracleQueryInterface (src/db/oracle/oracle_query_interface.py) *)

\* \blast\s+(\d+)\s+units?\b
LastN(first, unit) == <<B, Lit(first), WS1, NUM, WS1, Lit(unit), Opt("s"), B>>
\* \bfirst\s+second\b
Phrase(first, second) == <<B, Lit(first), WS1, Lit(second), B>>

\* time_patterns of OracleQueryInterface.parse_time_expressions, in dict order
OracleTimePatterns ==
    << [pat |-> Phrase("last", "week"), kind |-> "week"],
       [pat |-> Phrase("past", "week"), kind |-> "week"],
       [pat |-> Phrase("this", "week"), kind |-> "this_week"],
       [pat |-> Phrase("last", "month"), kind |-> "month"],
       [pat |-> Phrase("past", "month"), kind |-> "month"],
       [pat |-> Phrase("this", "month"), kind |-> "this_month"],
       [pat |-> LastN("last", "day"), kind |-> "days"],
       [pat |-> LastN("past", "day"), kind |-> "days"],
       [pat |-> LastN("last", "hour"), kind |-> "hours"],
       [pat |-> LastN("past", "hour"), kind |-> "hours"],
       [pat |-> Word("yesterday"), kind |-> "yesterday"],
       [pat |-> Word("today"), kind |-> "today"],
       [pat |-> Phrase("last", "hour"), kind |-> "hour"],
       [pat |-> Phrase("past", "hour"), kind |-> "hour"] >>

\* OracleQueryInterface.parse_time_expressions
OracleParseTimeExpressions(q, t) == ParseTimeWith(OracleTimePatterns, q, t)

\* value_patterns of extract_filters, in list order
ValuePatterns ==
    << [pat |-> <<Alt({"above", "over", "greater than", ">"}), WS0, DEC>>,
        operator |-> ">"],
       [pat |-> <<Alt({"below", "under", "less than", "<"}), WS0, DEC>>,
        operator |-> "<"],
       [pat |-> <<Alt({"equals", "equal", "="}), WS0, DEC>>, operator |-> "="],
       [pat |-> <<Lit("between"), WS1, DEC, WS1, Lit("and"), WS1, DEC>>,
        operator |-> "BETWEEN"] >>

\* unit_patterns of extract_filters, in list order
UnitPatterns ==
    << [pat |-> <<B, Alt({"degrees", "degree", "째c", "celsius"}), B>>, unit |-> "째C"],
       [pat |-> <<B, Alt({"fahrenheit", "째f"}), B>>, unit |-> "째F"],
       [pat |-> <<B, Alt({"bar", "psi", "pascal"}), B>>, unit |-> "bar"],
       [pat |-> <<B, Alt({"lpm", "l/min", "liters", "liter"}), B>>, unit |-> "L/min"],
       [pat |-> <<B, Alt({"watts", "watt", "w", "kw"}), B>>, unit |-> "W"],
       [pat |-> <<B, Alt({"percent", "%", "rh"}), B>>, unit |-> "%"] >>

\* one filter condition: its column, operator and value(s)
Filter(column, operator, values) ==
    [column |-> column, operator |-> operator, values |-> values]

RECURSIVE ValueFilters(_, _)
\* the loop over value_patterns: a filter for every pattern found, none breaks
ValueFilters(k, low) ==
    IF k > Len(ValuePatterns) THEN <<>>
    ELSE LET Found(m) ==
               IF m.found
               THEN <<Filter("SIGNUMVALUE", ValuePatterns[k].operator,
                             [i \in 1..Len(m.c) |-> PyFloat(m.c[i])])>>
               ELSE <<>>
         IN Found(Search(ValuePatterns[k].pat, low)) \o ValueFilters(k + 1, low)

\* OracleQueryInterface.extract_filters
ExtractFilters(q) ==
    LET \* low: query.lower(); u: the first unit pattern found (0: none)
        Filters(low, u) ==
       (IF ContainsAny(low, {"online", "active", "running"})
        THEN <<Filter("status", "=", <<PyStr("online")>>)>>
        ELSE IF ContainsAny(low, {"offline", "inactive", "down"})
        THEN <<Filter("status", "=", <<PyStr("offline")>>)>>
        ELSE <<>>)
       \o (IF ContainsAny(low, {"good quality", "valid"})
           THEN <<Filter("SIGSTATUS", "=", <<PyInt(0)>>),
                  Filter("PCTQUAL", ">", <<PyFloat("0.9")>>)>>
           ELSE IF ContainsAny(low, {"bad quality", "invalid"})
           THEN <<Filter("SIGSTATUS", "!=", <<PyInt(0)>>)>>
           ELSE <<>>)
       \o ValueFilters(1, low)
       \o (IF u = 0 THEN <<>>
           ELSE <<Filter("OBJUNIT", "LIKE",
                         <<PyStr("%" \o UnitPatterns[u].unit \o "%")>>)>>)
    IN Filters(Lower(q), FirstMatching(UnitPatterns, 1, Lower(q)))

\* the ladder of identify_query_intent for a query no table is suggested for
InferTables(low) ==
    IF ContainsAny(low, {"current values", "live values", "latest values",
                         "signal values", "current readings"})
    THEN <<"SIGNALVALUE">>
    ELSE IF ContainsAny(low, {"historical data", "history", "past data",
                              "archived", "time series"})
    THEN <<"REPDATA">>
    ELSE IF ContainsAny(low, {"channel groups", "groups", "equipment groups"})
    THEN <<"CHANNELGROUP">>
    ELSE IF ContainsAny(low, {"channels", "signal channels", "communication",
                              "protocols"})
    THEN <<"SIGNALCHANNEL">>
    ELSE IF ContainsAny(low, {"calculations", "reports", "computed", "aggregated"})
    THEN <<"REPITEM">>
    ELSE IF ContainsAny(low, {"process instances", "periods", "time periods",
                              "batches"})
    THEN <<"PROCINSTANCE">>
    ELSE IF ContainsAny(low, {"addresses", "external systems", "endpoints"})
    THEN <<"ADDRESS">>
    ELSE IF ContainsAny(low, {"signal", "sensor", "measurement"})
    THEN IF ContainsAny(low, {"definition", "configure", "setup", "type"})
         THEN <<"SIGNALITEM">> ELSE <<"SIGNALVALUE">>
    ELSE IF Contains(low, "current") \/ Contains(low, "now")
    THEN <<"SIGNALVALUE">>
    ELSE <<"SIGNALITEM">>

\* mutant of IdentifyQueryIntent: the aggregation keywords are looked for
\* whether or not a SELECT keyword is in the query
IdentifyQueryIntent_AggregationKept(q, t) ==
    LET LimitOf(limit_match) ==
            IF limit_match.found THEN StripLeadingZeros(limit_match.c[1]) ELSE "0"
        Intent(query_lower, parsed, suggested, limit, selecting) ==
       IF parsed.raised THEN [raised |-> TRUE]
       ELSE
       [raised |-> FALSE,
        action |-> IF ~selecting /\ ContainsAny(query_lower, {"count", "how many"})
                   THEN "COUNT" ELSE "SELECT",
        aggregation |->
           IF ContainsAny(query_lower, {"count", "how many"}) THEN "COUNT"
           ELSE IF ContainsAny(query_lower, {"average", "avg", "mean"}) THEN "AVG"
           ELSE IF ContainsAny(query_lower, {"maximum", "max", "highest"}) THEN "MAX"
           ELSE IF ContainsAny(query_lower, {"minimum", "min", "lowest"}) THEN "MIN"
           ELSE IF ContainsAny(query_lower, {"sum", "total"}) THEN "SUM"
           ELSE NONE,
        tables |-> IF suggested # <<>> THEN suggested
                   ELSE InferTables(Lower(parsed.query)),
        filters |-> ExtractFilters(parsed.query),
        time_range |-> [start |-> parsed.start, end |-> parsed.end],
        limit |-> IF limit = "0" THEN "100" ELSE limit]
        Parsed(query_lower, parsed) ==
            Intent(query_lower, parsed, SuggestTables(parsed.query),
                   LimitOf(Search(<<B, Alt({"top", "limit", "first"}), WS1, NUM, B>>,
                                  query_lower)),
                   ContainsAny(query_lower, {"show", "list", "display", "get",
                                             "find", "what"}))
    IN Parsed(Strip(Lower(q)), OracleParseTimeExpressions(q, t))

\* OracleQueryInterface.identify_query_intent; the limit is kept as the text
\* of the integer (str(int(digits)))
IdentifyQueryIntent(q, t) ==
    LET \* str(int(digits)) of the limit matched, "0" when none is
        LimitOf(limit_match) ==
            IF limit_match.found THEN StripLeadingZeros(limit_match.c[1]) ELSE "0"
        \* parsed: what parse_time_expressions returned; suggested: what
        \* suggest_tables returned for the cleaned query; selecting: a SELECT
        \* keyword is in the query
        Intent(query_lower, parsed, suggested, limit, selecting) ==
       IF parsed.raised THEN [raised |-> TRUE]
       ELSE
       [raised |-> FALSE,
        action |-> IF ~selecting /\ ContainsAny(query_lower, {"count", "how many"})
                   THEN "COUNT" ELSE "SELECT",
        aggregation |->
           IF selecting THEN NONE
           ELSE IF ContainsAny(query_lower, {"count", "how many"}) THEN "COUNT"
           ELSE IF ContainsAny(query_lower, {"average", "avg", "mean"}) THEN "AVG"
           ELSE IF ContainsAny(query_lower, {"maximum", "max", "highest"}) THEN "MAX"
           ELSE IF ContainsAny(query_lower, {"minimum", "min", "lowest"}) THEN "MIN"
           ELSE IF ContainsAny(query_lower, {"sum", "total"}) THEN "SUM"
           ELSE NONE,
        tables |-> IF suggested # <<>> THEN suggested
                   ELSE InferTables(Lower(parsed.query)),
        filters |-> ExtractFilters(parsed.query),
        time_range |-> [start |-> parsed.start, end |-> parsed.end],
        limit |-> IF limit = "0" THEN "100" ELSE limit]
        Parsed(query_lower, parsed) ==
            Intent(query_lower, parsed, SuggestTables(parsed.query),
                   LimitOf(Search(<<B, Alt({"top", "limit", "first"}), WS1, NUM, B>>,
                                  query_lower)),
                   ContainsAny(query_lower, {"show", "list", "display", "get",
                                             "find", "what"}))
    IN Parsed(Strip(Lower(q)), OracleParseTimeExpressions(q, t))

RECURSIVE FilterConditions(_, _)
\* the loop "for filter_condition in intent['filters']": the WHERE fragments
FilterConditions(filters, k) ==
    IF k > Len(filters) THEN <<>>
    ELSE LET f == filters[k] IN
         <<IF f.operator = "BETWEEN" THEN f.column \o " BETWEEN ? AND ?"
           ELSE IF f.operator = "LIKE" THEN f.column \o " LIKE ?"
           ELSE f.column \o " " \o f.operator \o " ?">>
         \o FilterConditions(filters, k + 1)

RECURSIVE FilterParams_FirstValue(_, _)
\* mutant of FilterParams: a BETWEEN filter binds its first value only
\* (params.append(value[0]) for params.extend(value))
FilterParams_FirstValue(filters, k) ==
    IF k > Len(filters) THEN <<>>
    ELSE <<filters[k].values[1]>> \o FilterParams_FirstValue(filters, k + 1)

RECURSIVE FilterParams(_, _)
\* the same loop: the parameters appended (params.extend / params.append)
FilterParams(filters, k) ==
    IF k > Len(filters) THEN <<>>
    ELSE filters[k].values \o FilterParams(filters, k + 1)

\* OracleQueryInterface.build_sql_query
BuildSqlQuery(intent) ==
    LET primary_table == IF intent.tables # <<>> THEN intent.tables[1]
                         ELSE "SIGNALITEM"
        agg == intent.aggregation
        select_clause ==
            IF agg # NONE
            THEN IF agg = "COUNT" THEN "SELECT COUNT(*)"
                 ELSE IF primary_table = "SIGNALVALUE"
                 THEN "SELECT " \o agg \o "(SIGNUMVALUE)"
                 ELSE IF primary_table = "REPDATA"
                 THEN "SELECT " \o agg \o "(NUMVALUE)"
                 ELSE "SELECT COUNT(*)"
            ELSE IF primary_table = "SIGNALITEM"
            THEN "SELECT SIGID, SIGNAME, SIGTYPE, OBJDESCR, OBJUNIT, CHANNR"
            ELSE IF primary_table = "SIGNALVALUE"
            THEN "SELECT SIGID, UPDATETIME, SIGNUMVALUE, SIGTEXTVALUE, SIGSTATUS"
            ELSE IF primary_table = "SIGNALCHANNEL"
            THEN "SELECT CHANNR, CHANNAME, CHANDESCR, GROUPNR, HOSTNAME"
            ELSE IF primary_table = "REPDATA"
            THEN "SELECT PINSTID, RICODE, NUMVALUE, TEXTVALUE, PCTQUAL"
            ELSE IF primary_table = "REPITEM"
            THEN "SELECT RICODE, RITEXT, RICLASS, RIUNIT, DESCRIPTION"
            ELSE IF primary_table = "CHANNELGROUP"
            THEN "SELECT GROUPNR, GROUPNAME, DESCRIPTION, NODENR"
            ELSE "SELECT *"
        timed == intent.time_range.start # NoTime /\ intent.time_range.end # NoTime
        time_filtered == timed /\ primary_table \in {"SIGNALVALUE", "REPDATA"}
        from_clause ==
            " FROM " \o primary_table
            \o (IF timed /\ primary_table = "REPDATA"
                THEN " JOIN PROCINSTANCE ON REPDATA.PINSTID = PROCINSTANCE.PINSTID"
                ELSE "")
        where_conditions ==
            FilterConditions(intent.filters, 1)
            \o (IF ~timed THEN <<>>
                ELSE IF primary_table = "SIGNALVALUE"
                THEN <<"UPDATETIME BETWEEN ? AND ?">>
                ELSE IF primary_table = "REPDATA"
                THEN <<"PROCINSTANCE.PINSTSTART BETWEEN ? AND ?">>
                ELSE <<>>)
        where_clause == IF where_conditions # <<>>
                        THEN " WHERE " \o JoinWith(" AND ", where_conditions) ELSE ""
        order_clause ==
            IF agg # NONE THEN ""
            ELSE IF primary_table = "SIGNALVALUE" THEN " ORDER BY UPDATETIME DESC"
            ELSE IF primary_table = "REPDATA" THEN " ORDER BY PINSTID DESC"
            ELSE IF primary_table = "SIGNALITEM" THEN " ORDER BY SIGNAME"
            ELSE " ORDER BY 1"
        limit_clause == " LIMIT " \o intent.limit
    IN [sql |-> select_clause \o from_clause \o where_clause \o order_clause
                \o limit_clause,
        params |-> FilterParams(intent.filters, 1)
                   \o (IF time_filtered
                       THEN <<PyDateTime(intent.time_range.start),
                              PyDateTime(intent.time_range.end)>>
                       ELSE <<>>)]

-----------------------------------------------------------------------------
(* Initial values of the parts of the state a component does not use *)

IdleManager ==
    /\ providers = {} /\ provider_order = <<>> /\ current_provider = NONE
IdleKnowledge ==
    /\ query_history = {} /\ domain_vocabulary = {} /\ query_patterns = {}
    /\ next_id = [history |-> 1, vocabulary |-> 1, patterns |-> 1]
IdleRequest ==
    /\ query = "" /\ twin = "" /\ now = 0 /\ schema_context = NONE

RangeOf(q) == {q[i] : i \in 1..Len(q)}

-----------------------------------------------------------------------------
(* SpecProviders: an LLMProviderManager built from any configuration, then
   driven by generate_sql and switch_provider calls *)

\* the texts a provider returns when it does not raise
ManagerReplies == {"SELECT 1"}
\* the names switch_provider is called with
SwitchNames == ProviderNames \cup {"gemini"}

InitProviders ==
    /\ pc = "manager"
    /\ calls = 0
    /\ out = [op |-> "init", carry |-> NONE]
    /\ \E available \in SUBSET ProviderNames, order \in FallbackOrders :
          InitializeProviders(available, order)
    /\ IdleKnowledge /\ IdleRequest

\* one generate_sql call; out.sticky is the provider that produced the last
\* result when no switch_provider call came after it
MgrGenerateSql ==
    /\ pc = "manager" /\ calls < MaxCalls
    /\ \E reply \in [ProviderNames -> ManagerReplies \cup {RAISE}] :
         LET r == GenerateSqlRun(current_provider, providers, provider_order, reply) IN
         /\ current_provider' = r.current
         /\ out' = [op |-> "generate_sql", before |-> current_provider,
                    sticky |-> out.carry, reply |-> reply,
                    raised |-> r.raised, sql |-> r.sql, provider |-> r.provider,
                    invoked |-> r.invoked,
                    carry |-> IF r.raised THEN out.carry ELSE r.provider]
    /\ calls' = calls + 1
    /\ UNCHANGED <<requestVars, pc, providers, provider_order, knowledgeVars,
                   schema_context>>

\* one switch_provider(name) call; healthy is what is_healthy() answers
MgrSwitchProvider ==
    /\ pc = "manager" /\ calls < MaxCalls
    /\ \E name \in SwitchNames, healthy \in BOOLEAN :
         LET r == SwitchProviderRun(current_provider, providers, name, healthy) IN
         /\ current_provider' = r.current
         /\ out' = [op |-> "switch_provider", before |-> current_provider,
                    name |-> name, healthy |-> healthy, ok |-> r.ok,
                    carry |-> NONE]
    /\ calls' = calls + 1
    /\ UNCHANGED <<requestVars, pc, providers, provider_order, knowledgeVars,
                   schema_context>>

NextProviders == MgrGenerateSql \/ MgrSwitchProvider

SpecProviders == InitProviders /\ [][NextProviders]_vars

\* C30: in every reachable state of LLMProviderManager current_provider is
\* None or the name of a registered provider; switch_provider(name) sets
\* current_provider to name and returns true only when name is registered and
\* its health check passes, and otherwise returns false and leaves
\* current_provider unchanged.
C30_CurrentProviderRegistered ==
    /\ current_provider = NONE \/ current_provider \in providers
    /\ out.op = "switch_provider" =>
          /\ out.ok <=> (out.name \in providers /\ out.healthy)
          /\ out.ok => current_provider = out.name
          /\ ~out.ok => current_provider = out.before

\* C30 witness: a switch from one registered provider to another that
\* succeeded
C30_Witness ==
    /\ out.op = "switch_provider"
    /\ out.ok
    /\ out.before \in providers
    /\ out.name # out.before
    /\ current_provider = out.name

\* the registered names of the order other than the provider tried first
RemainingInOrder(order, regs, first) ==
    SelectSeq(order, LAMBDA n : n \in regs /\ n # first)

\* C6: provider selection is sticky: after generate_sql returns a result,
\* current_provider names the provider that produced it, and the next
\* generate_sql call (no switch_provider call in between) invokes that provider
\* before any other; a provider other than the current one is invoked only
\* after the current one raised in the same call, and the remaining providers
\* are tried in fallback_order, each after the one before it raised.
C6_StickyProvider ==
    out.op = "generate_sql" =>
      LET rest == IF out.before # NONE /\ out.before \in providers
                  THEN Tail(out.invoked) ELSE out.invoked
      IN
      /\ ~out.raised => current_provider = out.provider
      /\ out.sticky # NONE =>
            /\ out.invoked # <<>>
            /\ out.invoked[1] = out.sticky
      /\ (out.before # NONE /\ out.before \in providers) =>
            /\ out.invoked # <<>> /\ out.invoked[1] = out.before
            /\ rest # <<>> => out.reply[out.before] = RAISE
      /\ Len(rest) <= Len(RemainingInOrder(provider_order, providers, out.before))
      /\ rest = SubSeq(RemainingInOrder(provider_order, providers, out.before),
                       1, Len(rest))
      /\ \A k \in 1..(Len(rest) - 1) : out.reply[rest[k]] = RAISE

\* C6 witness: a call made after an earlier result, in which the sticky
\* provider raised and a fallback provider produced the result
C6_Witness ==
    /\ out.op = "generate_sql"
    /\ out.sticky # NONE
    /\ ~out.raised
    /\ Len(out.invoked) = 2
    /\ out.provider # out.sticky
    /\ current_provider = out.provider

\* C7 (as claimed): generate_sql returns the result of the first provider that
\* does not raise, raises only when every registered provider was tried in the
\* call and raised, invokes no provider twice, and leaves current_provider
\* unchanged when it raises.
C7_RaisesOnlyWhenAllTried ==
    out.op = "generate_sql" =>
      /\ ~out.raised =>
            /\ out.invoked # <<>>
            /\ out.provider = out.invoked[Len(out.invoked)]
            /\ out.sql = out.reply[out.provider]
            /\ \A k \in 1..(Len(out.invoked) - 1) : out.reply[out.invoked[k]] = RAISE
      /\ out.raised =>
            /\ \A p \in providers : p \in RangeOf(out.invoked) /\ out.reply[p] = RAISE
            /\ current_provider = out.before
      /\ \A i, j \in 1..Len(out.invoked) : out.invoked[i] = out.invoked[j] => i = j

\* the stop_words of _extract_keywords
KeywordStopWords ==
    {"show", "me", "get", "find", "what", "which", "where", "the", "a", "an",
     "and", "or"}

\* _extract_keywords: the words of three letters or more that are no stop word
ExtractKeywords(q) == SelectSeq(WordsOf(q), LAMBDA w : w \notin KeywordStopWords)

\* how SQLite orders confidence_score values: a TEXT value ('high') is above
\* every number (0.5)
ConfidenceRank(c) == IF c = "0.5" THEN 1 ELSE 2

RECURSIVE OrderedRows(_, _)
\* the rows in ORDER BY confidence_score DESC, timestamp DESC (byConfidence)
\* or ORDER BY timestamp DESC; a row written later has the later timestamp,
\* which its id stands for
OrderedRows(rows, byConfidence) ==
    IF rows = {} THEN <<>>
    ELSE LET Before(r1, r2) ==
                 IF byConfidence
                    /\ ConfidenceRank(r1.confidence_score)
                         # ConfidenceRank(r2.confidence_score)
                 THEN ConfidenceRank(r1.confidence_score)
                        > ConfidenceRank(r2.confidence_score)
                 ELSE r1.id >= r2.id
             first == CHOOSE r \in rows : \A o \in rows : Before(r, o)
         IN <<first>> \o OrderedRows(rows \ {first}, byConfidence)

\* get_similar_examples: the successful rows whose natural query holds one of
\* the keywords (LIKE ignores the case of ASCII letters), the first `limit` of
\* them; every successful row when there is no keyword; [] when the lookup
\* fails (failed)
GetSimilarExamples(kb, natural_query, limit, failed) ==
    IF failed \/ natural_query = NONE THEN <<>>
    ELSE LET \* the first rows of the SELECT, as the dicts returned
             Examples(sorted) ==
               [k \in 1..(IF Len(sorted) < limit THEN Len(sorted) ELSE limit) |->
                  [query |-> sorted[k].natural_query,
                   sql |-> sorted[k].generated_sql,
                   confidence |-> sorted[k].confidence_score,
                   result_count |-> sorted[k].result_count]]
             Matching(keywords) ==
               Examples(OrderedRows({r \in kb.history :
                                       /\ r.execution_success
                                       /\ \/ keywords = <<>>
                                          \/ \E k \in 1..Len(keywords) :
                                               Contains(Lower(r.natural_query),
                                                        keywords[k])},
                                    keywords # <<>>))
         IN Matching(ExtractKeywords(natural_query))

-----------------------------------------------------------------------------
(* SpecKnowledge: a QueryKnowledgeSystem driven by record_query calls *)
\* record_query calls made in one behaviour
MaxRecords == 2

\* the natural queries recorded: two spellings of one query, and another query
KnQueries == {"count signals", "  Count   SIGNALS ", "show alerts today"}
\* the SQL texts recorded
KnSqls == {"SELECT COUNT(*) FROM signals", "SELECT * FROM AlertLog"}

FallbackInfo == [provider |-> "fallback", model |-> "rule-based", confidence |-> NONE]
ClaudeInfo == [provider |-> "claude", model |-> "claude-3-haiku-20240307",
               confidence |-> "high"]

InitKnowledge ==
    /\ pc = "knowledge"
    /\ calls = 0
    /\ out = [op |-> "init", pairs |-> {}]
    /\ IdleManager /\ IdleKnowledge /\ IdleRequest

\* one record_query call; the latency is distinct for every call, so that the
\* call a row comes from can be told; out.pairs are the (natural_query,
\* generated_sql) of the calls that returned an id
KnRecordQuery ==
    /\ pc = "knowledge" /\ calls < MaxRecords
    /\ \E nl \in KnQueries, sql \in KnSqls, success \in BOOLEAN,
          fault \in KnowledgeFaults :
         LET a == [natural_query |-> nl, generated_sql |-> sql,
                   execution_success |-> success,
                   execution_time_ms |-> 10 * (calls + 1),
                   result_count |-> IF success THEN calls ELSE -1,
                   provider_info |-> IF sql = "SELECT * FROM AlertLog"
                                     THEN ClaudeInfo ELSE FallbackInfo,
                   error_message |-> IF success THEN NONE ELSE "no such table"]
         IN \E r \in {RecordQueryRun(KnowledgeBase, a, fault)} :
            /\ SetKnowledge(r.kb)
            /\ out' = [op |-> "record_query", args |-> a, fault |-> fault,
                       ret |-> r.ret,
                       pairs |-> IF r.ret = -1 THEN out.pairs
                                 ELSE out.pairs \cup {<<nl, sql>>}]
    /\ calls' = calls + 1
    /\ UNCHANGED <<requestVars, pc, managerVars, schema_context>>

NextKnowledge == KnRecordQuery

SpecKnowledge == InitKnowledge /\ [][NextKnowledge]_vars

RECURSIVE SplitWords(_)
\* the whitespace-separated words of a text, in order (str.split())
SplitWords(s) ==
    LET t == LStrip(s) IN
    IF t = "" THEN <<>>
    ELSE LET e == CHOOSE i \in 1..(Len(t) + 1) :
                     /\ \A k \in 1..(i - 1) : ~IsSpace(CharAt(t, k))
                     /\ (i = Len(t) + 1 \/ IsSpace(CharAt(t, i)))
         IN <<SubSeq(t, 1, e - 1)>> \o SplitWords(SubSeq(t, e, Len(t)))

\* two natural queries are the same up to case, leading and trailing blanks
\* and the length of whitespace runs
SameNormalized(q1, q2) == SplitWords(Lower(q1)) = SplitWords(Lower(q2))

\* C5: query_history holds exactly one row for each distinct pair
\* (query_hash, generated_sql) recorded, query_hash being the same for two
\* natural queries iff they agree once lower-cased, trimmed and with whitespace
\* runs collapsed; recording a pair again replaces the row's fields by those
\* of the latest call.
C5_OneRowPerPair ==
    /\ \A r1, r2 \in query_history :
          (r1.query_hash = r2.query_hash /\ r1.generated_sql = r2.generated_sql)
             => r1 = r2
    /\ \A r1, r2 \in query_history :
          (r1.query_hash = r2.query_hash)
             <=> SameNormalized(r1.natural_query, r2.natural_query)
    /\ \A p \in out.pairs :
          \E r \in query_history :
             SameNormalized(r.natural_query, p[1]) /\ r.generated_sql = p[2]
    /\ \A r \in query_history :
          \E p \in out.pairs : r.natural_query = p[1] /\ r.generated_sql = p[2]
    /\ (out.op = "record_query" /\ out.ret # -1) =>
          \E r \in query_history :
             /\ r.id = out.ret
             /\ r.natural_query = out.args.natural_query
             /\ r.generated_sql = out.args.generated_sql
             /\ r.execution_success = out.args.execution_success
             /\ r.execution_time_ms = out.args.execution_time_ms
             /\ r.result_count = out.args.result_count
             /\ r.provider_used = out.args.provider_info.provider
             /\ r.error_message = out.args.error_message
             /\ \A o \in query_history :
                   (SameNormalized(o.natural_query, r.natural_query)
                    /\ o.generated_sql = r.generated_sql) => o = r

\* C24: a record_query call with execution_success false leaves
\* domain_vocabulary and query_patterns as they were before the call: the
\* learning step runs only for calls with execution_success true.
C24_FailureLearnsNothing ==
    [][(out'.op = "record_query" /\ ~out'.args.execution_success) =>
          /\ domain_vocabulary' = domain_vocabulary
          /\ query_patterns' = query_patterns]_vars

\* C24 witness: a failed query recorded in a store that has learned a term and
\* a pattern from an earlier, successful one
C24_Witness ==
    /\ out.op = "record_query"
    /\ ~out.args.execution_success
    /\ out.ret # -1
    /\ domain_vocabulary # {}
    /\ query_patterns # {}

-----------------------------------------------------------------------------
(* SpecLearning: a QueryKnowledgeSystem that records successful queries only,
   often enough for the learned confidence to pass 1.0 *)

\* record_query calls made in one behaviour
MaxLearned == 6

\* the natural queries recorded, the table each one reads and the SQL
\* recorded with it
LearnQueries == {"count signals", "show signals", "count alerts"}
LearnTableOf(nl) == IF nl = "count alerts" THEN "alerts" ELSE "signals"
LearnSqlOf(nl) ==
    IF nl = "show signals" THEN "SELECT * FROM " \o LearnTableOf(nl) \o " LIMIT 100"
    ELSE "SELECT COUNT(*) FROM " \o LearnTableOf(nl)

InitLearning ==
    /\ pc = "learning"
    /\ calls = 0
    /\ out = [op |-> "init", records |-> [nl \in LearnQueries |-> 0]]
    /\ IdleManager /\ IdleKnowledge /\ IdleRequest

\* one record_query call of a successful query; out.records counts the calls
\* made for every natural query
LearnRecordQuery ==
    /\ pc = "learning" /\ calls < MaxLearned
    /\ \E nl \in LearnQueries :
         LET a == [natural_query |-> nl, generated_sql |-> LearnSqlOf(nl),
                   execution_success |-> TRUE,
                   execution_time_ms |-> 10 * (calls + 1),
                   result_count |-> calls,
                   provider_info |-> FallbackInfo,
                   error_message |-> NONE]
         IN \E r \in {RecordQueryRun(KnowledgeBase, a, "none")} :
            /\ SetKnowledge(r.kb)
            /\ out' = [op |-> "record_query", args |-> a, ret |-> r.ret,
                       records |-> [out.records EXCEPT ![nl] = @ + 1]]
    /\ calls' = calls + 1
    /\ UNCHANGED <<requestVars, pc, managerVars, schema_context>>

NextLearning == LearnRecordQuery

SpecLearning == InitLearning /\ [][NextLearning]_vars

\* C25: after any sequence of successful records there is at most one
\* query_patterns row per (pattern_type, example_nl), and its usage_count is
\* the number of times that pattern was learned (an aggregation pattern is
\* learned by every record of a query with an aggregation word whose SQL has
\* an aggregate function).
C25_OnePatternRow ==
    \A nl \in LearnQueries :
       LET Counted(rows, learned) ==
             IF learned = 0 THEN rows = {}
             ELSE /\ Cardinality(rows) = 1
                  /\ \A r \in rows : r.usage_count = learned
       IN Counted({r \in query_patterns :
                     r.pattern_type = "aggregation" /\ r.example_nl = nl},
                  IF nl \in {"count signals", "count alerts"}
                  THEN out.records[nl] ELSE 0)

\* the updates of the vocabulary entry of a term made so far: one for every
\* record of a query that holds the term and whose SQL reads the table of
\* that name
TermUpdates(term) ==
    LET RECURSIVE Sum(_)
        Sum(S) == IF S = {} THEN 0
                  ELSE LET nl == CHOOSE x \in S : TRUE
                       IN out.records[nl] + Sum(S \ {nl})
    IN Sum({nl \in LearnQueries :
              /\ \E k \in 1..Len(WordsOf(nl)) : WordsOf(nl)[k] = term
              /\ LearnTableOf(nl) = term})

-----------------------------------------------------------------------------
(* SpecExamples: a QueryKnowledgeSystem that records queries and is asked for
   similar examples *)
\* the natural queries recorded
ExQueries == {"count signals", "show alerts today"}
\* the natural queries looked up: one that shares a keyword with each recorded
\* query, one that shares keywords with both, one without any keyword, one
\* whose keywords no recorded query holds
ExLookups == {"count signals", "alerts", "count alerts", "show me the", "list sensors"}

InitExamples ==
    /\ pc = "examples"
    /\ calls = 0
    /\ out = [op |-> "init"]
    /\ IdleManager /\ IdleKnowledge /\ IdleRequest

\* one record_query call that the database accepts
ExRecordQuery ==
    /\ pc = "examples" /\ calls < MaxRecords
    /\ \E nl \in ExQueries, success \in BOOLEAN :
         LET a == [natural_query |-> nl,
                   generated_sql |-> IF nl = "count signals"
                                     THEN "SELECT COUNT(*) FROM signals"
                                     ELSE "SELECT * FROM AlertLog",
                   execution_success |-> success,
                   execution_time_ms |-> 10 * (calls + 1),
                   result_count |-> IF success THEN calls ELSE -1,
                   provider_info |-> IF nl = "count signals"
                                     THEN FallbackInfo ELSE ClaudeInfo,
                   error_message |-> IF success THEN NONE ELSE "no such table"]
         IN \E r \in {RecordQueryRun(KnowledgeBase, a, "none")} :
            /\ SetKnowledge(r.kb)
            /\ out' = [op |-> "record_query", args |-> a, ret |-> r.ret]
    /\ calls' = calls + 1
    /\ UNCHANGED <<requestVars, pc, managerVars, schema_context>>

\* one get_similar_examples call; failed: the SELECT raises
ExGetSimilarExamples ==
    /\ pc = "examples"
    /\ \E nl \in ExLookups, limit \in 1..MaxRecords, failed \in BOOLEAN :
         out' = [op |-> "get_similar_examples", natural_query |-> nl,
                 limit |-> limit, failed |-> failed,
                 res |-> GetSimilarExamples(KnowledgeBase, nl, limit, failed)]
    /\ UNCHANGED <<requestVars, pc, calls, managerVars, knowledgeVars,
                   schema_context>>

NextExamples == ExRecordQuery \/ ExGetSimilarExamples

SpecExamples == InitExamples /\ [][NextExamples]_vars

\* the example dict get_similar_examples makes of a row
ExampleOf(r) ==
    [query |-> r.natural_query, sql |-> r.generated_sql,
     confidence |-> r.confidence_score, result_count |-> r.result_count]

\* C20: get_similar_examples(nl, limit) returns at most limit examples, each
\* from a record whose stored outcome is successful; when no stored
\* successful query shares a keyword with nl, it returns the most recent
\* successful records instead of an empty list.
C20_RecentWhenNoOverlap ==
    (out.op = "get_similar_examples" /\ ~out.failed) =>
       LET Recent(succ, keywords) ==
             /\ Len(out.res) <= out.limit
             /\ \A i \in 1..Len(out.res) : \E r \in succ : out.res[i] = ExampleOf(r)
             /\ (\A r \in succ : \A k \in 1..Len(keywords) :
                    ~Contains(Lower(r.natural_query), keywords[k])) =>
                   /\ Len(out.res) = IF Cardinality(succ) < out.limit
                                     THEN Cardinality(succ) ELSE out.limit
                   /\ \A i \in 1..Len(out.res) :
                         \E r \in succ :
                            /\ out.res[i] = ExampleOf(r)
                            /\ Cardinality({o \in succ : o.id > r.id}) = i - 1
       IN Recent({r \in query_history : r.execution_success},
                 ExtractKeywords(out.natural_query))

\* C5 witness: a pair recorded a second time, in another spelling and with
\* another outcome, leaves the single row of the second call
C5_Witness ==
    /\ out.op = "record_query" /\ out.ret = 2
    /\ out.args.natural_query = "  Count   SIGNALS "
    /\ ~out.args.execution_success
    /\ <<"count signals", out.args.generated_sql>> \in out.pairs
    /\ Cardinality(query_history) = 1
    /\ \A r \in query_history : r.id = 2 /\ ~r.execution_success

-----------------------------------------------------------------------------
(* SpecSynth: rule-based synthesis of both interfaces, applied to queries
   composed of a verb, an entity, a filter, a time phrase and a limit phrase;
   "#" and "$" in a phrase stand for numbers the user writes *)

\* the numbers n a user writes for "#" are 1..MaxValue ("$" is n + TenMore)
MaxValue == 2
TenMore == 10

Verbs == {"", "show", "count", "average"}
Entities == {"signals", "readings", "alerts"}
FilterPhrases == {"", "above #", "valid online bar between # and $"}
TimePhrases == {"", "last week", "last # days"}
LimitPhrases == {"", "top #"}

\* datetime.now() of the calls: Monday 2026-11-02 22:34
SynthNow == 1065487594

RECURSIVE Subst(_, _)
\* the phrase with n written for "#" and n + TenMore for "$"
Subst(phrase, n) ==
    IF phrase = "" THEN ""
    ELSE LET c == CharAt(phrase, 1) IN
         (IF c = "#" THEN ToString(n)
          ELSE IF c = "$" THEN ToString(n + TenMore) ELSE c)
         \o Subst(Tail(phrase), n)

\* the query made of the phrases that are not empty, one space between them
Compose(parts) == JoinWith(" ", SelectSeq(parts, LAMBDA x : x # ""))

InitSynth ==
    /\ pc = "synth"
    /\ calls = 0
    /\ out = [op |-> "init"]
    /\ now = SynthNow
    /\ \E verb \in Verbs, entity \in Entities, filter \in FilterPhrases,
          time \in TimePhrases, limit \in LimitPhrases, n \in 1..MaxValue :
         LET template == Compose(<<verb, limit, entity, filter, time>>) IN
         /\ query = Subst(template, n)
         /\ twin = Subst(template, n + 1)
    /\ schema_context = NONE
    /\ IdleManager /\ IdleKnowledge

\* parse_time_expressions, then build_sql_query_fallback on the cleaned query
FallbackSynthesis(q, t) ==
    LET Built(p, b) ==
          [raised |-> FALSE, sql |-> b.sql, params |-> b.params,
           start |-> p.start, end |-> p.end]
        Parsed(p) ==
          IF p.raised
          THEN [raised |-> TRUE, sql |-> NONE, params |-> <<>>,
                start |-> NoTime, end |-> NoTime]
          ELSE Built(p, BuildSqlQueryFallback(p.query, p.start, p.end))
    IN Parsed(ParseTimeExpressions(q, t))

\* identify_query_intent, then build_sql_query
OracleSynthesis(q, t) ==
    LET Built(i, b) ==
          [raised |-> FALSE, sql |-> b.sql, params |-> b.params,
           start |-> i.time_range.start, end |-> i.time_range.end]
        Identified(i) ==
          IF i.raised
          THEN [raised |-> TRUE, sql |-> NONE, params |-> <<>>,
                start |-> NoTime, end |-> NoTime]
          ELSE Built(i, BuildSqlQuery(i))
    IN Identified(IdentifyQueryIntent(q, t))

\* EnhancedQueryInterface synthesizes SQL for query, and for twin
SynthFallback ==
    /\ pc = "synth"
    /\ pc' = "done"
    /\ \E syn \in {[x \in {query, twin} |-> FallbackSynthesis(x, now)]} :
          out' = [op |-> "build_sql_query_fallback",
                  res |-> syn[query], twin |-> syn[twin]]
    /\ calls' = calls + 1
    /\ UNCHANGED <<requestVars, managerVars, knowledgeVars, schema_context>>

\* OracleQueryInterface synthesizes SQL for query, and for twin
SynthOracle ==
    /\ pc = "synth"
    /\ pc' = "done"
    /\ \E syn \in {[x \in {query, twin} |-> OracleSynthesis(x, now)]} :
          out' = [op |-> "build_sql_query",
                  res |-> syn[query], twin |-> syn[twin]]
    /\ calls' = calls + 1
    /\ UNCHANGED <<requestVars, managerVars, knowledgeVars, schema_context>>

NextSynth == SynthFallback \/ SynthOracle

SpecSynth == InitSynth /\ [][NextSynth]_vars

SynthOps == {"build_sql_query_fallback", "build_sql_query"}

\* s.count(c) for a one-character c
CountChar(s, c) == Cardinality({i \in 1..Len(s) : CharAt(s, i) = c})

RECURSIVE Holes(_, _)
\* the positions of the "?" words among the words of an SQL text, in order
Holes(words, i) ==
    IF i > Len(words) THEN <<>>
    ELSE (IF words[i] = "?" THEN <<i>> ELSE <<>>) \o Holes(words, i + 1)

\* the number the user wrote for "#" in query: twin has the next one
RECURSIVE WrittenValue(_)
WrittenValue(n) ==
    IF n > MaxValue THEN 0
    ELSE IF \E verb \in Verbs, entity \in Entities, filter \in FilterPhrases,
               time \in TimePhrases, limit \in LimitPhrases :
               LET template == Compose(<<verb, limit, entity, filter, time>>) IN
               query = Subst(template, n) /\ twin = Subst(template, n + 1)
    THEN n ELSE WrittenValue(n + 1)

\* the value that belongs to the placeholder at word i of an SQL text: the
\* predicate "column operator ?" or "column BETWEEN ? AND ?" it stands in says
\* which value of the request it binds
ValueForHole(words, i, r, n) ==
    LET high == i >= 5 /\ words[i - 1] = "AND" /\ words[i - 2] = "?"
                /\ words[i - 3] = "BETWEEN"
        column == IF high THEN words[i - 4] ELSE words[i - 2]
    IN IF column \in {"timestamp", "r.timestamp"}
       THEN PyStr(IsoFormat(IF high THEN r.end ELSE r.start))
       ELSE IF column \in {"UPDATETIME", "PROCINSTANCE.PINSTSTART"}
       THEN PyDateTime(IF high THEN r.end ELSE r.start)
       ELSE IF column \in {"value", "SIGNUMVALUE"}
       THEN PyFloat(ToString(IF high THEN n + TenMore ELSE n))
       ELSE IF column = "status" THEN PyStr("online")
       ELSE IF column = "SIGSTATUS" THEN PyInt(0)
       ELSE IF column = "PCTQUAL" THEN PyFloat("0.9")
       ELSE IF column = "OBJUNIT" THEN PyStr("%bar%")
       ELSE PyStr("<no such column>")

\* C8: in every SQL produced by build_sql_query and by
\* build_sql_query_fallback the number of '?' placeholders equals len(params),
\* and the k-th parameter is the value of the predicate the k-th placeholder
\* stands in, placeholders counted left to right.
C8_PlaceholdersMatchParams ==
    (out.op \in SynthOps /\ ~out.res.raised) =>
       LET Bound(words, holes) ==
             /\ CountChar(out.res.sql, "?") = Len(out.res.params)
             /\ Len(holes) = Len(out.res.params)
             /\ \A k \in 1..Len(holes) :
                   out.res.params[k]
                     = ValueForHole(words, holes[k], out.res, WrittenValue(1))
       IN Bound(SplitWords(out.res.sql), Holes(SplitWords(out.res.sql), 1))

\* C8 witness: build_sql_query bound eight parameters: a status filter, the
\* two quality filters, a BETWEEN filter, a unit filter and the time window
C8_Witness ==
    /\ out.op = "build_sql_query"
    /\ ~out.res.raised
    /\ Len(out.res.params) = 8
    /\ out.res.start # NoTime

\* C9: values taken from the user's text are never interpolated into the SQL
\* text: two queries that differ only in such values synthesize the same SQL
\* string.
C9_NoUserValueInSql ==
    (out.op \in SynthOps /\ ~out.res.raised /\ ~out.twin.raised) =>
       out.res.sql = out.twin.sql

\* the keywords of each aggregate function
AggregationKeywords ==
    [COUNT |-> {"count", "how many"}, AVG |-> {"average", "avg", "mean"},
     MAX |-> {"maximum", "max", "highest"}, MIN |-> {"minimum", "min", "lowest"},
     SUM |-> {"sum", "total"}]

\* the SELECT clause of an SQL text: what stands before " FROM "
SelectClauseOf(sql) ==
    LET m == Search(<<Lit(" FROM ")>>, sql) IN
    IF m.found THEN SubSeq(sql, 1, m.start - 1) ELSE sql

\* C10: for every query containing an aggregation keyword the SELECT clause
\* of the synthesized SQL contains the matching aggregate function and the
\* SQL has no ORDER BY clause.
C10_AggregateWithoutOrderBy ==
    (out.op \in SynthOps /\ ~out.res.raised) =>
       \A f \in DOMAIN AggregationKeywords :
          ContainsAny(Lower(query), AggregationKeywords[f]) =>
             /\ Contains(SelectClauseOf(out.res.sql), f \o "(")
             /\ ~Contains(out.res.sql, "ORDER BY")

\* s.endswith(suffix)
EndsWith(s, suffix) ==
    Len(s) >= Len(suffix) /\ SubSeq(s, Len(s) - Len(suffix) + 1, Len(s)) = suffix

\* the SELECT clause of an SQL text calls an aggregate function
Aggregated(sql) ==
    \E f \in DOMAIN AggregationKeywords : Contains(SelectClauseOf(sql), f \o "(")

\* the N of the 'top|limit|first N' phrase of a lower-cased query, "100"
\* when it has none
RequestedLimit(low) ==
    LET Of(m) == IF m.found THEN m.c[1] ELSE "100"
    IN Of(Search(<<B, Alt({"top", "limit", "first"}), WS1, NUM, B>>, low))

\* C11: every non-aggregated SQL statement produced by build_sql_query and
\* by build_sql_query_fallback ends with LIMIT n, where n is the N of a
\* 'top|limit|first N' phrase when the query has one and 100 otherwise.
C11_EndsWithLimit ==
    (out.op \in SynthOps /\ ~out.res.raised /\ ~Aggregated(out.res.sql)) =>
       EndsWith(out.res.sql, " LIMIT " \o RequestedLimit(Lower(query)))

-----------------------------------------------------------------------------
(* parse_time_expressions of both interfaces, called at the datetime now on
   a query made of a lead and two relative-time phrases; "#" in a phrase
   stands for a number the user writes *)

TimeLeads == {"", "show readings", "Alerts From"}
RelativePhrases ==
    {"", "last week", "Past Week", "last month", "last # days",
     "last # hours", "yesterday", "today", "this week",
     "last last week week", "last 999999999 days"}

InitTime ==
    /\ pc = "time"
    /\ calls = 0
    /\ out = [op |-> "init"]
    /\ now = SynthNow
    /\ \E lead \in TimeLeads, first \in RelativePhrases,
          second \in RelativePhrases, n \in 1..MaxValue :
         query = Subst(Compose(<<lead, first, second>>), n)
    /\ twin = ""
    /\ schema_context = NONE
    /\ IdleManager /\ IdleKnowledge

\* EnhancedQueryInterface.parse_time_expressions(query)
ParseTimeFallback ==
    /\ pc = "time"
    /\ pc' = "done"
    /\ out' = [op |-> "parse_time_expressions",
               res |-> ParseTimeExpressions(query, now)]
    /\ calls' = calls + 1
    /\ UNCHANGED <<requestVars, managerVars, knowledgeVars, schema_context>>

\* OracleQueryInterface.parse_time_expressions(query)
ParseTimeOracle ==
    /\ pc = "time"
    /\ pc' = "done"
    /\ out' = [op |-> "oracle.parse_time_expressions",
               res |-> OracleParseTimeExpressions(query, now)]
    /\ calls' = calls + 1
    /\ UNCHANGED <<requestVars, managerVars, knowledgeVars, schema_context>>

NextTime == ParseTimeFallback \/ ParseTimeOracle

SpecTime == InitTime /\ [][NextTime]_vars

\* the pattern table of each of the two parsers
TimePatternsOf ==
    [op \in {"parse_time_expressions", "oracle.parse_time_expressions"} |->
       IF op = "parse_time_expressions" THEN FallbackTimePatterns
       ELSE OracleTimePatterns]

\* the span, in minutes, that the phrases of a kind are defined to have; n is
\* the N written in the phrase
DefinedSpan(kind, n) ==
    CASE kind = "week" -> 7 * MinutesPerDay
      [] kind = "month" -> 30 * MinutesPerDay
      [] kind = "days" -> n * MinutesPerDay
      [] kind = "hours" -> n * 60

\* C12: for every supported relative-time phrase, parse_time_expressions
\* returns a window whose duration equals the phrase's defined span (last or
\* past week: 7 days ending at call time; last N days: N days; last N hours:
\* N hours; last month: 30 days), and the matched phrase no longer occurs in
\* the returned cleaned query.
C12_WindowHasDefinedSpan ==
    (out.op \in DOMAIN TimePatternsOf /\ out.res.pattern # 0) =>
       LET Spans(p, m) ==
             p.kind \in {"week", "month", "days", "hours"} =>
                /\ ~out.res.raised
                /\ out.res.end = now
                /\ out.res.end - out.res.start
                     = DefinedSpan(p.kind, IF m.c = <<>> THEN 0 ELSE ParseInt(m.c[1]))
                /\ ~Search(p.pat, Lower(out.res.query)).found
           Matched(p) == Spans(p, Search(p.pat, Lower(query)))
       IN Matched(TimePatternsOf[out.op][out.res.pattern])

\* C13: parse_time_expressions recognizes at most one time expression per
\* query: when several supported phrases occur in the text, the returned
\* window is that of the phrase whose pattern comes first in the fixed
\* pattern order, wherever the phrases stand in the text; when no pattern
\* matches it returns the query unchanged with start and end both None.
C13_FirstPatternWins ==
    out.op \in DOMAIN TimePatternsOf =>
       LET \* pattern k is found in the text and none before it in the order is
           Wins(pats, low, k) ==
              /\ Search(pats[k].pat, low).found
              /\ \A j \in 1..(k - 1) : ~Search(pats[j].pat, low).found
           Holds(pats, low) ==
              /\ (\A k \in 1..Len(pats) : ~Search(pats[k].pat, low).found) =>
                    /\ ~out.res.raised
                    /\ out.res.query = query
                    /\ out.res.start = NoTime
                    /\ out.res.end = NoTime
              /\ \A k \in 1..Len(pats) :
                    Wins(pats, low, k) =>
                       [raised |-> out.res.raised, start |-> out.res.start,
                        end |-> out.res.end]
                         = TimeWindow(pats[k].kind, now, Search(pats[k].pat, low).c)
       IN Holds(TimePatternsOf[out.op], Lower(query))

\* C13 witness: two phrases were in the query and the window returned is that
\* of the one that stands later in the text
C13_Witness ==
    /\ out.op \in DOMAIN TimePatternsOf
    /\ ~out.res.raised
    /\ LET Later(pats, low) ==
             \E k, j \in 1..Len(pats) :
                /\ k < j
                /\ out.res.pattern = k
                /\ Search(pats[j].pat, low).found
                /\ Search(pats[j].pat, low).start < Search(pats[k].pat, low).start
                /\ pats[j].kind # pats[k].kind
       IN Later(TimePatternsOf[out.op], Lower(query))

-----------------------------------------------------------------------------
(* The domain mappers (src/src/domain_mapping.py,
   src/db/oracle/oracle_domain_mapping.py): one lookup or one suggestion for
   a text, written in lower or upper case, bare or between blanks *)

MapperTexts ==
    {"", "signal", "alerts", "readings", "current_values", "xyz",
     "signal values", "all signals", "live data",
     "show me current signal values", "history of signals and sensors",
     "signal channels and groups", "measurements and readings history"}

InitMapper ==
    /\ pc = "mapper"
    /\ calls = 0
    /\ out = [op |-> "init"]
    /\ now = SynthNow
    /\ \E text \in MapperTexts, pad \in {"", " "}, upper \in BOOLEAN :
         query = pad \o (IF upper THEN Upper(text) ELSE text) \o pad
    /\ twin = ""
    /\ schema_context = NONE
    /\ IdleManager /\ IdleKnowledge

\* DomainMapper.get_table_name(query)
MapGetTableName ==
    /\ pc = "mapper"
    /\ pc' = "done"
    /\ out' = [op |-> "get_table_name", res |-> GetTableName(query)]
    /\ calls' = calls + 1
    /\ UNCHANGED <<requestVars, managerVars, knowledgeVars, schema_context>>

\* OracleDomainMapper.get_table_for_domain(query)
MapGetTableForDomain ==
    /\ pc = "mapper"
    /\ pc' = "done"
    /\ out' = [op |-> "get_table_for_domain", res |-> GetTableForDomain(query)]
    /\ calls' = calls + 1
    /\ UNCHANGED <<requestVars, managerVars, knowledgeVars, schema_context>>

\* OracleDomainMapper.suggest_tables(query)
MapSuggestTables ==
    /\ pc = "mapper"
    /\ pc' = "done"
    /\ out' = [op |-> "suggest_tables", res |-> SuggestTables(query)]
    /\ calls' = calls + 1
    /\ UNCHANGED <<requestVars, managerVars, knowledgeVars, schema_context>>

NextMapper == MapGetTableName \/ MapGetTableForDomain \/ MapSuggestTables

SpecMapper == InitMapper /\ [][NextMapper]_vars

\* the mapping each lookup reads
MappingOf ==
    [op \in {"get_table_name", "get_table_for_domain"} |->
       IF op = "get_table_name" THEN TableMappings ELSE OracleTableMappings]

\* C18: table lookup by domain term (OracleDomainMapper.get_table_for_domain
\* and DomainMapper.get_table_name) is an exact, case-insensitive lookup: it
\* returns the mapped table for a term in the mapping and none for a term
\* that is not in the mapping.
C18_ExactLookup ==
    out.op \in DOMAIN MappingOf =>
       LET Looked(items, key) ==
             /\ \A k \in 1..Len(items) : items[k][1] = key => out.res = items[k][2]
             /\ (\A k \in 1..Len(items) : items[k][1] # key) => out.res = NONE
       IN Looked(MappingOf[out.op], Lower(query))

RECURSIVE TermScore(_, _, _)
\* len(term) added up over the domain terms k.. of a table that occur in low
TermScore(table, low, k) ==
    IF k > Len(OracleTableMappings) THEN 0
    ELSE (IF OracleTableMappings[k][2] = table /\ Contains(low, OracleTableMappings[k][1])
          THEN Len(OracleTableMappings[k][1]) ELSE 0)
         + TermScore(table, low, k + 1)

\* the number of patterns of a table that match low
PatternCount(table, low) ==
    Cardinality({<<g, i>> \in (1..Len(SuggestPatterns)) \X (1..6) :
                    /\ SuggestPatterns[g].table = table
                    /\ i <= Len(SuggestPatterns[g].pats)
                    /\ Search(SuggestPatterns[g].pats[i], low).found})

\* table a stands before table b in the suggestions res (a table that is not
\* suggested stands after every table that is)
RankedAbove(res, a, b) ==
    \E i \in 1..Len(res) :
       res[i] = a /\ \A j \in 1..Len(res) : res[j] = b => i < j

-----------------------------------------------------------------------------
(* SpecTerms: an OracleDomainMapper asked to expand two business terms *)

\* business_terms of OracleDomainMapper, in dictionary order
BusinessTerms ==
    << <<"temperature", <<"temp", "thermal", "heat", "degrees">> >>,
       <<"pressure", <<"press", "force", "psi", "bar", "pascal">> >>,
       <<"flow", <<"flowrate", "rate", "volume", "throughput">> >>,
       <<"level", <<"height", "depth", "tank_level", "fill">> >>,
       <<"vibration", <<"vibe", "oscillation", "shake", "frequency">> >>,
       <<"power", <<"electrical", "energy", "watts", "consumption">> >>,
       <<"humidity", <<"moisture", "water_content", "rh">> >>,
       <<"pump", <<"motor", "compressor", "fan">> >>,
       <<"tank", <<"vessel", "container", "storage">> >>,
       <<"valve", <<"actuator", "damper", "control">> >>,
       <<"line", <<"pipe", "conduit", "duct">> >>,
       <<"production", <<"manufacturing", "output", "yield">> >>,
       <<"quality", <<"specification", "grade", "standard">> >>,
       <<"efficiency", <<"performance", "utilization", "productivity">> >>,
       <<"alarm", <<"alert", "warning", "fault", "error">> >>,
       <<"hourly", <<"hour", "hr", "h">> >>,
       <<"daily", <<"day", "d", "24h">> >>,
       <<"weekly", <<"week", "7d">> >>,
       <<"monthly", <<"month", "30d">> >>,
       <<"shift", <<"period", "block", "rotation">> >>,
       <<"online", <<"active", "running", "operational">> >>,
       <<"offline", <<"inactive", "stopped", "down">> >>,
       <<"fault", <<"error", "alarm", "problem", "issue">> >>,
       <<"normal", <<"ok", "good", "stable", "healthy">> >>,
       <<"average", <<"avg", "mean">> >>,
       <<"maximum", <<"max", "peak", "highest">> >>,
       <<"minimum", <<"min", "lowest">> >>,
       <<"total", <<"sum", "cumulative">> >>,
       <<"count", <<"number", "quantity", "amount">> >> >>

\* OracleDomainMapper.expand_business_term: the entry of the term when it is
\* a key, else the first entry, in dictionary order, that lists it as a
\* synonym, else the term alone
ExpandBusinessTerm(term) ==
    LET Expanded(t) ==
          LET keyed  == {k \in 1..Len(BusinessTerms) : BusinessTerms[k][1] = t}
              listed == {k \in 1..Len(BusinessTerms) :
                           t \in RangeOf(BusinessTerms[k][2])}
              Entry(k) == <<BusinessTerms[k][1]>> \o BusinessTerms[k][2]
          IN IF keyed # {} THEN Entry(CHOOSE k \in keyed : TRUE)
             ELSE IF listed # {}
             THEN Entry(CHOOSE k \in listed : \A j \in listed : k <= j)
             ELSE <<t>>
    IN Expanded(Strip(Lower(term)))

\* every key and every synonym of the dictionary
DictionaryTerms ==
    UNION {{BusinessTerms[k][1]} \cup RangeOf(BusinessTerms[k][2]) :
             k \in 1..Len(BusinessTerms)}

InitTerms ==
    /\ pc = "terms"
    /\ calls = 0
    /\ out = [op |-> "init"]
    /\ now = SynthNow
    /\ query \in DictionaryTerms
    /\ twin \in DictionaryTerms
    /\ schema_context = NONE
    /\ IdleManager /\ IdleKnowledge

\* expand_business_term(query) and expand_business_term(twin)
TermsExpand ==
    /\ pc = "terms"
    /\ pc' = "done"
    /\ out' = [op |-> "expand_business_term",
               res |-> ExpandBusinessTerm(query),
               twin |-> ExpandBusinessTerm(twin)]
    /\ calls' = calls + 1
    /\ UNCHANGED <<requestVars, managerVars, knowledgeVars, schema_context>>

NextTerms == TermsExpand

SpecTerms == InitTerms /\ [][NextTerms]_vars

\* C27: synonym expansion is bidirectional: for all terms a and b of the
\* business-term dictionary, if b is in expand_business_term(a) then a is in
\* expand_business_term(b).
C27_ExpansionSymmetric ==
    out.op = "expand_business_term" =>
       (twin \in RangeOf(out.res) => query \in RangeOf(out.twin))

-----------------------------------------------------------------------------
(* SpecSchema: an EnhancedSchemaAnalyzer asked for the relationships of the
   tables of a database; query is the list of tables passed and
   schema_context the columns get_table_schema reports for each of them *)

\* what stands for the columns of a table whose get_table_schema call raises
SchemaRaises == <<RAISE>>

\* the table lists passed: the tables of the database in the order it names
\* them
SchemaTableLists ==
    {<<"device">>, <<"device", "Sensor">>, <<"Sensor", "device">>,
     <<"readings", "device", "Sensor">>, <<"Sensor", "readings", "device">>}

\* the column lists a table can have
SchemaColumnLists ==
    {<<"id", "value">>, <<"id", "device_id">>,
     <<"id", "SENSOR_id", "device_id">>, <<"_id", "sensor_ids", "readings_id">>}

RECURSIVE ParentsOf(_, _, _, _)
\* the inner loop "for other_table in tables" for one column: a relationship
\* for every table whose name is the prefix of the column, case ignored
ParentsOf(table, col_name, tables, k) ==
    IF k > Len(tables) THEN <<>>
    ELSE (IF Lower(tables[k]) = Lower(SubSeq(col_name, 1, Len(col_name) - 3))
          THEN << [child_table |-> table, child_column |-> col_name,
                   parent_table |-> tables[k], parent_column |-> "id",
                   confidence |-> "0.8"] >>
          ELSE <<>>)
         \o ParentsOf(table, col_name, tables, k + 1)

RECURSIVE ColumnRelationships(_, _, _, _)
\* the loop "for col in columns" of one table
ColumnRelationships(table, columns, tables, k) ==
    IF k > Len(columns) THEN <<>>
    ELSE (IF EndsWith(columns[k], "_id") /\ columns[k] # "id"
          THEN ParentsOf(table, columns[k], tables, 1) ELSE <<>>)
         \o ColumnRelationships(table, columns, tables, k + 1)

RECURSIVE DetectRelationships(_, _, _)
\* EnhancedSchemaAnalyzer._detect_relationships: the loop "for table in
\* tables"; a table whose get_table_schema raises is logged and skipped
DetectRelationships(tables, schema, k) ==
    IF k > Len(tables) THEN <<>>
    ELSE (IF schema[tables[k]] = SchemaRaises THEN <<>>
          ELSE ColumnRelationships(tables[k], schema[tables[k]], tables, 1))
         \o DetectRelationships(tables, schema, k + 1)

InitSchema ==
    /\ pc = "schema"
    /\ calls = 0
    /\ out = [op |-> "init"]
    /\ now = SynthNow
    /\ query \in SchemaTableLists
    /\ twin = NONE
    /\ schema_context \in [RangeOf(query) -> SchemaColumnLists \cup {SchemaRaises}]
    /\ IdleManager /\ IdleKnowledge

\* one _detect_relationships(tables) call
SchemaDetectRelationships ==
    /\ pc = "schema"
    /\ pc' = "done"
    /\ out' = [op |-> "_detect_relationships",
               res |-> DetectRelationships(query, schema_context, 1)]
    /\ calls' = calls + 1
    /\ UNCHANGED <<requestVars, managerVars, knowledgeVars, schema_context>>

NextSchema == SchemaDetectRelationships

SpecSchema == InitSchema /\ [][NextSchema]_vars

\* C28: _detect_relationships proposes a foreign key exactly for each column
\* whose name ends in "_id" and whose prefix equals, case ignored, the name of
\* another table; every proposed relationship has confidence 0.8 and a parent
\* table different from its child table.
C28_ForeignKeyToOtherTable ==
    out.op = "_detect_relationships" =>
       LET tables == RangeOf(query)
           Columns(t) == IF schema_context[t] = SchemaRaises THEN {}
                         ELSE RangeOf(schema_context[t])
           Proposed(rels) ==
             /\ \A r \in rels : r.confidence = "0.8" /\ r.parent_table # r.child_table
             /\ {<<r.child_table, r.child_column, r.parent_table>> : r \in rels}
                  = {x \in tables \X (UNION {Columns(t) : t \in tables}) \X tables :
                       /\ x[2] \in Columns(x[1])
                       /\ EndsWith(x[2], "_id")
                       /\ x[3] # x[1]
                       /\ Lower(x[3]) = Lower(SubSeq(x[2], 1, Len(x[2]) - 3))}
       IN Proposed(RangeOf(out.res))

-----------------------------------------------------------------------------
(* EnhancedQueryInterface.execute_natural_language_query
   (src/src/claude_query_interface.py): one request, from the examples
   lookup to the map returned or the exception that leaves the method *)

OpenAIInfo == [provider |-> "openai", model |-> "gpt-4", confidence |-> "high"]

\* the metadata a provider returns with its SQL
ProviderInfo(name) == IF name = "claude" THEN ClaudeInfo ELSE OpenAIInfo

\* _is_valid_sql: the text starts with a SQL command and holds no explanation
\* phrase
IsValidSql(text) ==
    LET text_upper == Strip(Upper(text)) IN
    /\ text # NONE /\ text # ""
    /\ \E cmd \in {"SELECT", "INSERT", "UPDATE", "DELETE", "WITH"} :
           StartsWith(text_upper, cmd)
    /\ ~ContainsAny(text_upper,
                    {"THE PROVIDED", "I CANNOT", "PLEASE NOTE", "HOWEVER",
                     "UNFORTUNATELY", "SORRY", "WITHOUT A CLEAR"})

\* _get_enhanced_schema_context: the text built on the first request and
\* cached in _schema_context (its first line stands for the text, whose rest
\* depends on the tables of the database only)
SchemaContextText ==
    "ISA-95 Manufacturing IoT Database Schema with AI-Enhanced Insights:"

\* the map returned; a key that is absent from the map is NONE (sql, error),
\* <<>> (params) or -1 (count); 'time_range' is None in the map of a success
\* and absent from the map of a failure
ResultMap(success, q, sql, params, count, provider_info, error) ==
    [success |-> success, query |-> q, sql |-> sql, params |-> params,
     count |-> count,
     provider_used |-> IF provider_info.provider = NONE THEN "unknown"
                       ELSE provider_info.provider,
     time_range |-> NONE,
     error |-> error]

NoResult == ResultMap(FALSE, NONE, NONE, <<>>, -1, NoProviderInfo, NONE)

\* the manager was not called
NoManagerCall ==
    [raised |-> FALSE, sql |-> NONE, provider |-> NONE, current |-> NONE,
     invoked |-> <<>>]

\* mutant of GenerateStep: the manager's text is executed without the
\* _is_valid_sql check
GenerateStep_NoValidation(q, t, cur, regs, order, reply) ==
    LET Built(g, b) ==
          [raised |-> FALSE, manager |-> g, fallback_runs |-> 1,
           sql |-> b.sql, params |-> b.params,
           provider_info |-> FallbackInfo, error |-> NONE]
        Parsed(g, p) ==
          IF p.raised
          THEN [raised |-> TRUE, manager |-> g, fallback_runs |-> 1,
                sql |-> NONE, params |-> <<>>,
                provider_info |-> NoProviderInfo,
                error |-> "date value out of range"]
          ELSE Built(g, BuildSqlQueryFallback(p.query, p.start, p.end))
        Generated(g) ==
          IF ~g.raised
          THEN [raised |-> FALSE, manager |-> g, fallback_runs |-> 0,
                sql |-> g.sql, params |-> <<>>,
                provider_info |-> ProviderInfo(g.provider), error |-> NONE]
          ELSE Parsed(g, ParseTimeExpressions(q, t))
    IN Generated(GenerateSqlRun(cur, regs, order, reply))

\* lines 446-470: the SQL to execute.  The manager is called once; when it
\* raised or its text is not valid SQL, parse_time_expressions and
\* build_sql_query_fallback run, and an exception of theirs (raised) leaves
\* sql and provider_info as the manager call left them
GenerateStep(q, t, cur, regs, order, reply) ==
    LET \* g: the manager call; p: what parse_time_expressions returned; b:
        \* what build_sql_query_fallback returned
        Built(g, b) ==
          [raised |-> FALSE, manager |-> g, fallback_runs |-> 1,
           sql |-> b.sql, params |-> b.params,
           provider_info |-> FallbackInfo, error |-> NONE]
        Parsed(g, p) ==
          IF p.raised
          THEN [raised |-> TRUE, manager |-> g, fallback_runs |-> 1,
                sql |-> IF g.raised THEN NONE ELSE g.sql, params |-> <<>>,
                provider_info |-> IF g.raised THEN NoProviderInfo
                                  ELSE ProviderInfo(g.provider),
                error |-> "date value out of range"]
          ELSE Built(g, BuildSqlQueryFallback(p.query, p.start, p.end))
        Generated(g) ==
          IF ~g.raised /\ IsValidSql(g.sql)
          THEN [raised |-> FALSE, manager |-> g, fallback_runs |-> 0,
                sql |-> g.sql, params |-> <<>>,
                provider_info |-> ProviderInfo(g.provider), error |-> NONE]
          ELSE Parsed(g, ParseTimeExpressions(q, t))
    IN Generated(GenerateSqlRun(cur, regs, order, reply))

\* the arguments of a record_query call of the request (the latency, which
\* the clock decides, is 12.5 ms; result_count None is -1)
RecordArgs(q, sql, success, count, provider_info, error) ==
    [natural_query |-> q, generated_sql |-> sql,
     execution_success |-> success, execution_time_ms |-> "12.5",
     result_count |-> count, provider_info |-> provider_info,
     error_message |-> error]

\* the faults of the knowledge store during a request: none, the examples
\* lookup fails, the INSERT of record_query fails, the learning step fails
StoreFaults == {"none", "examples", "insert", "learn"}

RecordFault(kfault) == IF kfault \in KnowledgeFaults THEN kfault ELSE "none"

\* lines 515-537, the handler of an exception raised after sql and
\* provider_info were assigned: the failed query is recorded when there is a
\* SQL text, and the failure map is returned.  done holds what the request did
\* before.
FailedRequest(q, sql, provider_info, error, kfault, done) ==
    LET recorded == sql # NONE /\ sql # ""
        \* a: the arguments of the record_query call, rec: the call
        Handled(a, rec) ==
          [done EXCEPT
             !.result = ResultMap(FALSE, q, sql, <<>>, -1, provider_info, error),
             !.kb = IF recorded THEN rec.kb ELSE done.kb,
             !.records = IF recorded
                         THEN Append(done.records,
                                     [args |-> a, fault |-> RecordFault(kfault),
                                      ret |-> rec.ret])
                         ELSE done.records]
        Recording(a) == Handled(a, RecordQueryRun(done.kb, a, RecordFault(kfault)))
    IN Recording(RecordArgs(q, sql, FALSE, -1, provider_info, error))

\* the outcomes of db.execute_query: it raises, it returns no row, it returns
\* one row
DbOutcomes == {"error", "empty", "rows"}

\* a database that returns no row whatever the statement
DbOutcomesFor_Any(sql) == DbOutcomes

\* the outcomes of db.execute_query(sql): a SELECT of COUNT(*) over the whole
\* table returns one row when it does not raise
DbOutcomesFor(sql) ==
    IF StartsWith(sql, "SELECT COUNT(*)") /\ ~Contains(sql, "GROUP BY")
    THEN {"error", "rows"}
    ELSE DbOutcomes

\* lines 472-513 and the handler: the request from the SQL to execute (head,
\* a GenerateStep) on.  context_fails: _get_enhanced_schema_context raises
\* (before sql and provider_info are assigned, so that the handler's read of
\* provider_info raises in its turn and the exception leaves the method);
\* insights_fail: suggest_manufacturing_insights raises (it returns at once
\* when there is no row).
RequestTail(q, head, ctx, kb, context_fails, db, insights_fail, kfault) ==
    LET count == IF db = "rows" THEN 1 ELSE 0
        \* the exception raised after the manager call, NONE when none is
        error == IF head.raised THEN head.error
                 ELSE IF db = "error" THEN "no such table"
                 ELSE IF insights_fail /\ db = "rows"
                 THEN "insight generation failed"
                 ELSE NONE
        \* the request as it ends: generated is the request after the SQL was
        \* generated, executed after db.execute_query, recorded after the
        \* record_query call of the success
        Ended(generated, executed, recorded) ==
          IF error # NONE
          THEN FailedRequest(q, head.sql, head.provider_info, error, kfault,
                             IF head.raised THEN generated
                             ELSE IF db = "error" THEN executed
                             ELSE recorded)
          ELSE [recorded EXCEPT
                  !.result = ResultMap(TRUE, q, head.sql, head.params, count,
                                       head.provider_info, NONE)]
        \* a: the arguments of the record_query call, rec: the call
        Recorded(generated, executed, a, rec) ==
          Ended(generated, executed,
                [executed EXCEPT
                   !.kb = rec.kb,
                   !.records = <<[args |-> a, fault |-> RecordFault(kfault),
                                  ret |-> rec.ret]>>])
        Recording(generated, executed, a) ==
          Recorded(generated, executed, a,
                   RecordQueryRun(kb, a, RecordFault(kfault)))
        Executed(generated, executed) ==
          Recording(generated, executed,
                    RecordArgs(q, head.sql, TRUE, count, head.provider_info, NONE))
        Generated(generated) ==
          Executed(generated,
                   [generated EXCEPT
                      !.executed = <<[sql |-> head.sql, params |-> head.params]>>])
        Started(start) ==
          IF ctx = NONE /\ context_fails
          THEN [start EXCEPT !.propagated = TRUE]
          ELSE Generated([start EXCEPT !.schema_context = SchemaContextText,
                                       !.manager = head.manager,
                                       !.manager_calls = 1,
                                       !.fallback_runs = head.fallback_runs])
    IN Started([propagated |-> FALSE, result |-> NoResult,
                schema_context |-> ctx, kb |-> kb,
                manager |-> NoManagerCall, manager_calls |-> 0,
                fallback_runs |-> 0, executed |-> <<>>, records |-> <<>>,
                examples |-> GetSimilarExamples(kb, q, 3, kfault = "examples")])

\* execute_natural_language_query as a whole
ExecuteRun(q, t, ctx, cur, regs, order, kb, reply, context_fails, db, insights_fail, kfault) ==
    RequestTail(q, GenerateStep(q, t, cur, regs, order, reply), ctx, kb,
                context_fails, db, insights_fail, kfault)

-----------------------------------------------------------------------------
(* Spec: an EnhancedQueryInterface serving one request.  The interface is in
   any state a session can have brought it to: the schema context built or
   not, the providers of any set of API keys with any of them current, the
   knowledge store empty or holding an earlier request. *)

\* the requests made
PipelineQueries ==
    {"show me alerts from yesterday", "count total signals recorded",
     "show readings from last 999999999 days", "xyzabc123nonsense", ""}

\* what a provider answers: a statement, an explanation, a statement that
\* changes data
PipelineReplies ==
    {"SELECT * FROM AlertLog LIMIT 10", "I cannot answer without a schema",
     "DELETE FROM RepData"}

\* the answers of the providers, told apart by the providers the manager
\* invokes only (a provider that is not invoked raises)
RepliesHeard(cur, regs, order) ==
    {reply \in [ProviderNames -> PipelineReplies \cup {RAISE}] :
        \A name \in ProviderNames :
            name \notin RangeOf(GenerateSqlRun(cur, regs, order, reply).invoked)
                => reply[name] = RAISE}

\* the knowledge store after an earlier request, which the rule-based
\* fallback served
EarlierRequest ==
    ExecuteRun("count total signals recorded", SynthNow, NONE, NONE, {},
               <<"claude", "openai">>,
               [history |-> {}, vocabulary |-> {}, patterns |-> {},
                next_id |-> [history |-> 1, vocabulary |-> 1, patterns |-> 1]],
               [name \in ProviderNames |-> RAISE], FALSE, "rows", FALSE,
               "none")

Init ==
    /\ pc = "pipeline"
    /\ calls = 0
    /\ out = [op |-> "init"]
    /\ query = "" /\ twin = "" /\ now = SynthNow
    /\ providers \in SUBSET ProviderNames
    /\ provider_order = <<"claude", "openai">>
    /\ current_provider \in (IF providers = {} THEN {NONE} ELSE providers)
    /\ \/ /\ schema_context = NONE
          /\ IdleKnowledge
       \/ /\ schema_context \in {NONE, SchemaContextText}
          /\ \E earlier \in {EarlierRequest.kb} :
                /\ query_history = earlier.history
                /\ domain_vocabulary = earlier.vocabulary
                /\ query_patterns = earlier.patterns
                /\ next_id = earlier.next_id

\* the faults the knowledge store can show in a request: one of a call the
\* request makes (the learning step runs in a record of success only)
FaultsMet(context_fails, head, db) ==
    IF context_fails \/ (head.raised /\ head.sql = NONE)
    THEN {"none", "examples"}
    ELSE IF head.raised \/ db = "error"
    THEN {"none", "examples", "insert"}
    ELSE StoreFaults

\* one execute_natural_language_query call.  The collaborators answer in any
\* way: the providers (reply), the building of the schema context
\* (context_fails), the database (db), the insight generation (insights_fail),
\* the knowledge store (kfault).  out.run is the request as it went,
\* out.sound the map returned had the knowledge store worked.
ExecuteNaturalLanguageQuery ==
    /\ pc = "pipeline"
    /\ pc' = "done"
    /\ \E q \in PipelineQueries,
          context_fails \in (IF schema_context = NONE THEN BOOLEAN
                             ELSE {FALSE}) :
       \E reply \in (IF context_fails THEN {[name \in ProviderNames |-> RAISE]}
                     ELSE RepliesHeard(current_provider, providers,
                                       provider_order)) :
       \E head \in {GenerateStep(q, now, current_provider, providers,
                                 provider_order, reply)} :
       \E db \in (IF ~context_fails /\ ~head.raised THEN DbOutcomesFor(head.sql)
                  ELSE {"error"}) :
       \E insights_fail \in (IF ~context_fails /\ ~head.raised /\ db = "rows"
                             THEN BOOLEAN ELSE {FALSE}),
          kfault \in FaultsMet(context_fails, head, db) :
       \E runs \in {[k \in {kfault, "none"} |->
                       RequestTail(q, head, schema_context, KnowledgeBase,
                                   context_fails, db, insights_fail, k)]} :
       \E run \in {runs[kfault]} :
         /\ query' = q
         /\ schema_context' = run.schema_context
         /\ current_provider' = IF run.manager_calls = 1
                                THEN head.manager.current
                                ELSE current_provider
         /\ SetKnowledge(run.kb)
         /\ out' = [op |-> "execute_natural_language_query",
                    kfault |-> kfault, context_fails |-> context_fails,
                    db |-> db, insights_fail |-> insights_fail,
                    run |-> run, sound |-> runs["none"].result]
    /\ calls' = calls + 1
    /\ UNCHANGED <<twin, now, providers, provider_order>>

Next == ExecuteNaturalLanguageQuery

Spec == Init /\ [][Next]_vars

Requested == out.op = "execute_natural_language_query"

\* the SQL the request attempted: the statement handed to the database, else
\* the text the manager returned, else none
AttemptedSql(run) ==
    IF run.executed # <<>> THEN run.executed[1].sql
    ELSE IF run.manager_calls = 1 /\ ~run.manager.raised THEN run.manager.sql
    ELSE NONE

\* C1: execute_natural_language_query never lets an exception reach its
\* caller: whatever the query and whichever collaborator fails, it returns a
\* result map, and a failed request's map has success false, an error text
\* and the attempted SQL (none when no SQL was produced).
C1_NeverPropagates ==
    Requested =>
        /\ ~out.run.propagated
        /\ ~out.run.result.success =>
              /\ out.run.result.error \notin {NONE, ""}
              /\ out.run.result.sql = AttemptedSql(out.run)

\* the request fell through to the rule-based fallback: the manager raised or
\* its text is not valid SQL
FellThrough(run) ==
    run.manager_calls = 1
    /\ (run.manager.raised \/ ~IsValidSql(run.manager.sql))

\* C2: within one request the manager is called at most once (and calls no
\* provider twice), the rule-based fallback runs at most once and exactly when
\* the manager raised or its output is not valid SQL, and at most one
\* statement is executed: the fallback's, with provider_used 'fallback', in
\* that case, and the provider's, with the provider's name, otherwise.
C2_SingleFallbackStep ==
    Requested =>
        LET run == out.run IN
        /\ run.manager_calls <= 1
        /\ Len(run.manager.invoked) = Cardinality(RangeOf(run.manager.invoked))
        /\ run.fallback_runs <= 1
        /\ (run.fallback_runs = 1) <=> FellThrough(run)
        /\ Len(run.executed) <= 1
        /\ run.executed # <<>> =>
              IF FellThrough(run)
              THEN LET rules == FallbackSynthesis(query, now) IN
                   /\ run.executed[1] = [sql |-> rules.sql,
                                         params |-> rules.params]
                   /\ run.result.provider_used = "fallback"
              ELSE /\ run.executed[1] = [sql |-> run.manager.sql,
                                         params |-> <<>>]
                   /\ run.result.provider_used = run.manager.provider

\* a provider answered with a text that is not SQL, and the statement of the
\* rule-based fallback was executed
C2_Witness ==
    /\ Requested
    /\ ~out.run.manager.raised /\ ~IsValidSql(out.run.manager.sql)
    /\ out.run.fallback_runs = 1
    /\ Len(out.run.executed) = 1
    /\ out.run.result.success
    /\ out.run.result.provider_used = "fallback"

\* C3: every request that returns, successful or failed, makes exactly one
\* record_query call, with execution_success equal to the success flag of
\* the result, and with the error text when the request failed (the
\* knowledge store and the insight generation working).
C3_OneRecordPerRequest ==
    (Requested /\ out.kfault = "none" /\ ~out.insights_fail
     /\ ~out.run.propagated) =>
        /\ Len(out.run.records) = 1
        /\ out.run.records[1].args.execution_success = out.run.result.success
        /\ ~out.run.result.success =>
              out.run.records[1].args.error_message = out.run.result.error

\* C4 as claimed: a failure of the knowledge store does not propagate and
\* does not change the result: record_query returns -1 when the insert or the
\* learning step fails, get_similar_examples returns the empty list.
C4_StoreFailureHidden ==
    Requested =>
        /\ out.run.propagated => out.context_fails
        /\ out.kfault = "examples" => out.run.examples = <<>>
        /\ \A i \in 1..Len(out.run.records) :
             LET rec == out.run.records[i] IN
             (rec.fault = "insert"
              \/ (rec.fault = "learn" /\ rec.args.execution_success))
                => rec.ret = -1
        /\ out.run.result = out.sound

\* C4, amended: a failure of the knowledge store does not propagate and does
\* not change the result: record_query returns -1 when the insert fails, and
\* the id of the row it recorded when only the learning step fails;
\* get_similar_examples returns the empty list; the result map is the one
\* returned had the store worked (providers and database answering alike).
C4_StoreFailureContained ==
    Requested =>
        /\ out.run.propagated => out.context_fails
        /\ out.kfault = "examples" => out.run.examples = <<>>
        /\ \A i \in 1..Len(out.run.records) :
             LET rec == out.run.records[i] IN
             /\ rec.fault = "insert" => rec.ret = -1
             /\ rec.fault = "learn" =>
                  /\ rec.ret >= 1
                  /\ i = Len(out.run.records) =>
                       \E r \in query_history :
                          /\ r.id = rec.ret
                          /\ r.natural_query = rec.args.natural_query
                          /\ r.generated_sql = rec.args.generated_sql
        /\ out.run.result = out.sound

\* the learning step failed in the record of a successful request: the call
\* returned the id of the row, and the request succeeded
C4_Witness ==
    /\ Requested
    /\ out.kfault = "learn"
    /\ out.run.result.success
    /\ Len(out.run.records) = 1
    /\ out.run.records[1].args.execution_success
    /\ out.run.records[1].ret >= 1

\* the collaborators of the request worked: the schema context was built, the
\* database executed the statement, the insight generation returned
CollaboratorsWorked ==
    ~out.context_fails /\ out.db # "error" /\ ~out.insights_fail

\* C14: for the query "show me alerts from yesterday"
\* execute_natural_language_query returns a successful result whose
\* time_range is non-null with start and end exactly one calendar day apart,
\* and whose SQL WHERE clause contains a BETWEEN-style timestamp predicate
\* bound to that window.
C14_YesterdayWindow ==
    (Requested /\ query = "show me alerts from yesterday" /\ CollaboratorsWorked) =>
       /\ out.run.result.success
       /\ out.run.result.time_range # NONE
       /\ out.run.result.time_range.end - out.run.result.time_range.start
            = MinutesPerDay
       /\ Contains(out.run.result.sql, " WHERE ")
       /\ Contains(out.run.result.sql, "timestamp BETWEEN ? AND ?")
       /\ out.run.result.params
            = <<PyStr(IsoFormat(out.run.result.time_range.start)),
                PyStr(IsoFormat(out.run.result.time_range.end))>>

\* C15: a query that matches no domain term, keyword or pattern
\* ("xyzabc123nonsense") never raises and returns either success=true with
\* count=0 or success=false with a populated error, whatever rows the
\* database holds.
C15_NonsenseQuery ==
    (Requested /\ query = "xyzabc123nonsense") =>
       /\ ~out.run.propagated
       /\ \/ out.run.result.success /\ out.run.result.count = 0
          \/ ~out.run.result.success /\ out.run.result.error # NONE

\* C16: execute_natural_language_query called with the empty string returns
\* a result with success=false.
C16_EmptyQueryFails ==
    (Requested /\ query = "" /\ ~out.run.propagated) => ~out.run.result.success

WhereClauseOf(sql) ==
    LET Upto(rest, m) == IF m.found THEN SubSeq(rest, 1, m.start - 1) ELSE rest
        After(m) ==
          IF ~m.found THEN ""
          ELSE LET Rest(rest) ==
                     Upto(rest, Search(<<Alt({" ORDER BY ", " LIMIT "})>>, rest))
               IN Rest(SubSeq(sql, m.e, Len(sql)))
    IN After(Search(<<Lit(" WHERE ")>>, sql))

\* the columns the builders compare with the time window
TimeColumns ==
    {"UPDATETIME", "PROCINSTANCE.PINSTSTART", "timestamp", "r.timestamp"}

\* C23: whenever a time window was parsed for the request, the WHERE clause
\* of the synthesized SQL holds a time-range predicate with two bound
\* parameters, the start and the end of the window, placed after all the
\* filter conditions, whatever the target table.
C23_TimePredicateLast ==
    (out.op \in SynthOps /\ ~out.res.raised
       /\ out.res.start # NoTime /\ out.res.end # NoTime) =>
       LET Last(where, params, n) ==
             /\ \E col \in TimeColumns : EndsWith(where, col \o " BETWEEN ? AND ?")
             /\ n >= 2
             /\ params[n - 1].text = IsoFormat(out.res.start)
             /\ params[n].text = IsoFormat(out.res.end)
       IN Last(WhereClauseOf(out.res.sql), out.res.params, Len(out.res.params))

\* the first word of an SQL text is one of the commands
Issues(sql, commands) ==
    sql # NONE /\ \E cmd \in commands : StartsWith(Strip(Upper(sql)), cmd)

\* C29: every SQL statement the pipeline passes to execute_query is a
\* read-only statement (SELECT or WITH): a generator output that is an INSERT,
\* UPDATE or DELETE statement is not executed, the rule-based fallback
\* replaces it.
C29_OnlyReadsExecuted ==
    Requested =>
       /\ \A i \in 1..Len(out.run.executed) :
             Issues(out.run.executed[i].sql, {"SELECT", "WITH"})
       /\ (/\ out.run.manager_calls = 1
           /\ ~out.run.manager.raised
           /\ Issues(out.run.manager.sql, {"INSERT", "UPDATE", "DELETE"}))
             => \A i \in 1..Len(out.run.executed) :
                   out.run.executed[i].sql # out.run.manager.sql

-----------------------------------------------------------------------------
(* SpecIntent: an OracleQueryInterface asked for the intent, or for the
   filters, of one query: two action keywords and an entity, or an entity and
   two filter phrases *)

\* keywords of every group of the action ladder of identify_query_intent
IntentVerbs ==
    {"", "show", "list", "what", "count", "how many", "average", "mean",
     "maximum", "highest", "minimum", "lowest", "sum", "total"}
IntentEntities == {"signals", "readings"}
\* phrases the detectors of extract_filters look for
IntentFilters ==
    {"", "online", "offline", "valid", "invalid", "bad quality", "above #",
     "below #", "degrees", "bar"}

InitIntent ==
    /\ pc = "intent"
    /\ calls = 0
    /\ out = [op |-> "init"]
    /\ now = SynthNow
    /\ \E v1 \in IntentVerbs, v2 \in IntentVerbs, entity \in IntentEntities,
          f1 \in IntentFilters, f2 \in IntentFilters, n \in 1..MaxValue :
         /\ \/ f1 = "" /\ f2 = ""
            \/ v1 \in {"", "show"} /\ v2 = ""
         /\ query = Subst(Compose(<<v1, v2, entity, f1, f2>>), n)
    /\ twin = NONE
    /\ schema_context = NONE
    /\ IdleManager /\ IdleKnowledge

\* one identify_query_intent call
IntentIdentify ==
    /\ pc = "intent"
    /\ pc' = "done"
    /\ out' = [op |-> "identify_query_intent",
               res |-> IdentifyQueryIntent(query, now)]
    /\ calls' = calls + 1
    /\ UNCHANGED <<requestVars, managerVars, knowledgeVars, schema_context>>

\* one extract_filters call
IntentExtractFilters ==
    /\ pc = "intent"
    /\ pc' = "done"
    /\ out' = [op |-> "extract_filters", res |-> ExtractFilters(query)]
    /\ calls' = calls + 1
    /\ UNCHANGED <<requestVars, managerVars, knowledgeVars, schema_context>>

NextIntent == IntentIdentify \/ IntentExtractFilters

SpecIntent == InitIntent /\ [][NextIntent]_vars

\* the keyword groups of the action ladder, in the order they are tried
ActionGroups ==
    << [keywords |-> {"show", "list", "display", "get", "find", "what"},
        action |-> "SELECT", aggregation |-> NONE],
       [keywords |-> {"count", "how many"},
        action |-> "COUNT", aggregation |-> "COUNT"],
       [keywords |-> {"average", "avg", "mean"},
        action |-> "SELECT", aggregation |-> "AVG"],
       [keywords |-> {"maximum", "max", "highest"},
        action |-> "SELECT", aggregation |-> "MAX"],
       [keywords |-> {"minimum", "min", "lowest"},
        action |-> "SELECT", aggregation |-> "MIN"],
       [keywords |-> {"sum", "total"},
        action |-> "SELECT", aggregation |-> "SUM"] >>

\* the groups that have a keyword in the text
GroupsIn(low) ==
    {g \in 1..Len(ActionGroups) : ContainsAny(low, ActionGroups[g].keywords)}

\* C21: identify_query_intent takes the action and the aggregation of the
\* first keyword group, in the order SELECT verbs, COUNT verbs, AVG, MAX, MIN,
\* SUM, that has a keyword in the query, and of that group alone; a query
\* without any keyword gets action SELECT and no aggregation.
C21_FirstGroupWins ==
    (out.op = "identify_query_intent" /\ ~out.res.raised) =>
       LET Chosen(groups) ==
             IF groups = {}
             THEN out.res.action = "SELECT" /\ out.res.aggregation = NONE
             ELSE \E g \in groups :
                     /\ \A h \in groups : g <= h
                     /\ out.res.action = ActionGroups[g].action
                     /\ out.res.aggregation = ActionGroups[g].aggregation
       IN Chosen(GroupsIn(Strip(Lower(query))))

\* C21 witness: a query with keywords of the AVG and of the MIN group and no
\* SELECT verb, identified as an AVG
C21_Witness ==
    /\ out.op = "identify_query_intent"
    /\ ~out.res.raised
    /\ GroupsIn(Lower(query)) = {3, 5}
    /\ out.res.action = "SELECT"
    /\ out.res.aggregation = "AVG"

RECURSIVE EveryValueFilter(_, _)
\* a filter for every value pattern found in the text, in list order
EveryValueFilter(k, low) ==
    IF k > Len(ValuePatterns) THEN <<>>
    ELSE LET Found(m) ==
               IF m.found
               THEN <<Filter("SIGNUMVALUE", ValuePatterns[k].operator,
                             [i \in 1..Len(m.c) |-> PyFloat(m.c[i])])>>
               ELSE <<>>
         IN Found(Search(ValuePatterns[k].pat, low)) \o EveryValueFilter(k + 1, low)

RECURSIVE EveryUnitFilter(_, _)
\* a filter for every unit pattern found in the text, in list order
EveryUnitFilter(k, low) ==
    IF k > Len(UnitPatterns) THEN <<>>
    ELSE (IF Search(UnitPatterns[k].pat, low).found
          THEN <<Filter("OBJUNIT", "LIKE",
                        <<PyStr("%" \o UnitPatterns[k].unit \o "%")>>)>>
          ELSE <<>>)
         \o EveryUnitFilter(k + 1, low)

\* the filters of all the detectors that fire on the text, in detector order
EveryFilter(low) ==
    (IF ContainsAny(low, {"online", "active", "running"})
     THEN <<Filter("status", "=", <<PyStr("online")>>)>> ELSE <<>>)
    \o (IF ContainsAny(low, {"offline", "inactive", "down"})
        THEN <<Filter("status", "=", <<PyStr("offline")>>)>> ELSE <<>>)
    \o (IF ContainsAny(low, {"good quality", "valid"})
        THEN <<Filter("SIGSTATUS", "=", <<PyInt(0)>>),
               Filter("PCTQUAL", ">", <<PyFloat("0.9")>>)>> ELSE <<>>)
    \o (IF ContainsAny(low, {"bad quality", "invalid"})
        THEN <<Filter("SIGSTATUS", "!=", <<PyInt(0)>>)>> ELSE <<>>)
    \o EveryValueFilter(1, low)
    \o EveryUnitFilter(1, low)

\* C22: extract_filters appends a filter for every detector that fires on the
\* query (status online, status offline, good quality, bad quality, each
\* numeric comparison, each unit phrase), in detector order: no detector
\* suppresses another.
C22_EveryDetectorAppends ==
    out.op = "extract_filters" => out.res = EveryFilter(Lower(query))

=============================================================================
